---------------------------- MODULE Spec2Model ----------------------------
(***************************************************************************)
(* MemoryVault / LifeVault: key custody on the Android client              *)
(* (CryptoManager.kt), the web client's wallet authentication              *)
(* (WalletContext.tsx), the relay client (AptosClient.kt, BackendApi.kt)   *)
(* and the backend's challenge verification and relay, which are not part  *)
(* of the sources at hand and are modelled from the specification.         *)
(*                                                                         *)
(* Cryptographic primitives are symbolic: a key, digest or signature is a  *)
(* tagged tuple of what it was computed from, so two of them are equal     *)
(* exactly when they were computed from equal inputs.                      *)
(***************************************************************************)
EXTENDS Integers, Sequences, FiniteSets, TLC

VARIABLES
    prefs,      \* CryptoManager.sharedPreferences: key name -> stored string or Null
    ret,        \* what the last KeyCustody call returned or threw
    hadWallet,  \* whether a wallet was ever stored (observation only)
    sample,     \* one earlier successful import, kept for comparison (observation only)
    kept,       \* an EncryptedData value the caller kept, or Null
    now,        \* the clock, in abstract milliseconds
    wire,       \* the auth requests the web client has posted
    consumed,   \* backend: the nonces already consumed
    lastVerify, \* backend: the last verify call, its result and the token issued
    attempted,  \* <<nonce, valid>> of every completed verify call (observation only)
    chain,      \* the transactions the relayer has sponsored, in order
    relayed,    \* backend: the relay result recorded for each (address, contentHash)
    lastRelay,  \* the last relay call: session, request, response, what the client returned
    outbox,     \* the last message a client put on the network (observation only)
    lastRead,   \* the last chain read of the Android client: request, reply, result
    calls,      \* backend: the verify calls in progress, by worker
    inflight,   \* backend: relays between transaction construction and node acceptance
    nextSeq,    \* chain: the next sequence number of each address
    localStorage, \* web page: the session token in localStorage, or Null
    lastAuth,   \* web page: the last authenticateWithWallet call and its result
    story,      \* backend: the story document, or Null
    chapters,   \* backend: the chapter documents of the story, by chapter number
    lastUnlock  \* backend: the last unlockChapter request and its response

custodyVars == <<prefs, ret, hadWallet, sample, kept>>

authVars == <<now, wire, consumed, lastVerify, attempted>>

relayVars == <<chain, relayed, lastRelay>>

\* what the actions of the sequential protocols leave alone
\* the web page: its local storage and its last authentication
webVars == <<localStorage, lastAuth>>

\* the backend's stories and the last unlock request
storyVars == <<story, chapters, lastUnlock>>

sideVars == <<lastRead, calls, inflight, nextSeq, webVars, storyVars>>

vars == <<custodyVars, authVars, relayVars, outbox, sideVars>>

Null == <<>>

-----------------------------------------------------------------------------
(* Bounds of the model *)

\* how many distinct values a SecureRandom draw can take
MaxRand == 2
\* the last instant of the clock
MaxTime == 2
\* how many auth requests the network remembers
MaxWire == 2
\* how many transactions the chain takes
MaxTx == 3
\* how many verify calls the backend handles at once
MaxCalls == 2
\* how many chapters a story takes
MaxChapters == 2
\* how many unlock attempts a chapter counts
MaxAttempts == 2

\* the backend's request handlers running side by side
Workers == 1..MaxCalls

\* the people with a wallet
Users == {"alice", "bob"}

-----------------------------------------------------------------------------
(* Strings are sequences of one-character strings *)

IsSpace(c) == c \in {" ", "\t"}

Lower(c) ==
    CASE c = "A" -> "a"
      [] c = "B" -> "b"
      [] c = "X" -> "x"
      [] OTHER -> c

Upper(c) ==
    CASE c = "a" -> "A"
      [] c = "b" -> "B"
      [] c = "x" -> "X"
      [] OTHER -> c

RECURSIVE DropLeadingWs(_)
DropLeadingWs(s) ==
    IF s = <<>> THEN s
    ELSE IF IsSpace(Head(s)) THEN DropLeadingWs(Tail(s)) ELSE s

RECURSIVE DropTrailingWs(_)
DropTrailingWs(s) ==
    IF s = <<>> THEN s
    ELSE IF IsSpace(s[Len(s)]) THEN DropTrailingWs(SubSeq(s, 1, Len(s) - 1)) ELSE s

\* String.trim()
Trim(s) == DropTrailingWs(DropLeadingWs(s))

\* String.lowercase()
Lowercase(s) == [i \in 1..Len(s) |-> Lower(s[i])]

\* String.replace(Regex("\\s+"), " ")
RECURSIVE CollapseWs(_)
CollapseWs(s) ==
    IF s = <<>> THEN <<>>
    ELSE IF IsSpace(Head(s)) THEN <<" ">> \o CollapseWs(DropLeadingWs(Tail(s)))
    ELSE <<Head(s)>> \o CollapseWs(Tail(s))

\* rawMnemonic.trim().lowercase().replace(Regex("\\s+"), " ")
Sanitize(raw) == CollapseWs(Lowercase(Trim(raw)))

\* String.split(" "): empty strings between adjacent delimiters are kept
RECURSIVE SplitOnSpace(_)
SplitOnSpace(s) ==
    IF \A i \in 1..Len(s) : s[i] # " " THEN <<s>>
    ELSE LET k == CHOOSE i \in 1..Len(s) : s[i] = " " /\ \A j \in 1..(i - 1) : s[j] # " "
         IN  <<SubSeq(s, 1, k - 1)>> \o SplitOnSpace(SubSeq(s, k + 1, Len(s)))

-----------------------------------------------------------------------------
(* BIP-39 (the kotlin-bip39 library), reduced to a two-word list with a    *)
(* one-bit checksum: the number of "b" words is even                       *)

WordList == {<<"a">>, <<"b">>}

\* MnemonicCode.validate(), run by toSeed(): words of the list, a count the
\* library knows, and the checksum
ChecksumValid(words) ==
    /\ Len(words) \in {12, 15, 18, 21, 24}
    /\ \A i \in 1..Len(words) : words[i] \in WordList
    /\ Cardinality({i \in 1..Len(words) : words[i] = <<"b">>}) % 2 = 0

\* MnemonicCode.toSeed(): PBKDF2 over the phrase's characters
ToSeed(mnemonic) == <<"pbkdf2", mnemonic>>

-----------------------------------------------------------------------------
(* Inputs: phrases as a user types or pastes them *)

\* n words: the first ones are the letters of v, the rest are "a"
Phrase(n, v) == [i \in 1..n |-> IF i <= Len(v) THEN <<v[i]>> ELSE <<"a">>]

RECURSIVE Join(_, _)
Join(words, sep) ==
    IF words = <<>> THEN <<>>
    ELSE IF Len(words) = 1 THEN words[1]
    ELSE words[1] \o sep \o Join(Tail(words), sep)

Shout(s) == [i \in 1..Len(s) |-> Upper(s[i])]

\* the same words written plainly, in capitals with wide gaps, or pasted
\* with surrounding blanks and tabs
Styles == {"plain", "shout", "pasted"}

Render(words, style) ==
    CASE style = "plain" -> Join(words, <<" ">>)
      [] style = "shout" -> Shout(Join(words, <<" ", " ">>))
      [] OTHER -> <<" ">> \o Join(words, <<"\t">>) \o <<"\t", " ">>

\* phrases with a valid checksum, of 12 and of 24 words
GoodPhrases == {Phrase(12, <<>>), Phrase(12, <<"b", "b">>), Phrase(24, <<"b", "b">>)}

\* no words, a word too few, a word too many, a word count the library
\* accepts and the wallet does not, and a wrong checksum
BadPhrases ==
    {Phrase(0, <<>>), Phrase(11, <<>>), Phrase(13, <<"b", "b">>), Phrase(15, <<>>),
     Phrase(12, <<"a", "b">>), Phrase(24, <<"b">>)}

ImportInputs ==
    {Render(w, st) : w \in GoodPhrases, st \in Styles}
        \cup {Render(w, "plain") : w \in BadPhrases}
        \cup {Render(Phrase(13, <<>>), "shout")}

\* the sanitized form of each input, computed once
SanitizedInputs == [raw \in ImportInputs |-> Sanitize(raw)]

CleanMnemonic(raw) ==
    IF raw \in DOMAIN SanitizedInputs THEN SanitizedInputs[raw] ELSE Sanitize(raw)

\* Mnemonics.MnemonicCode(WordCount.COUNT_24): 24 words with a valid checksum
GeneratedMnemonics == {Render(Phrase(24, <<>>), "plain"), Render(Phrase(24, <<"b", "b">>), "plain")}

SignInputs == {<<"m", "1">>, <<"m", "2">>}

Plaintexts == {<<"p", "1">>, <<"p", "2">>}

-----------------------------------------------------------------------------
(* CryptoManager: helpers *)

KEY_PRIVATE_KEY == "private_key"
KEY_PUBLIC_KEY == "public_key"
KEY_ADDRESS == "wallet_address"
KEY_MNEMONIC == "mnemonic"
KEY_ENCRYPTION_KEY == "encryption_key"

PrefKeys == {KEY_PRIVATE_KEY, KEY_PUBLIC_KEY, KEY_ADDRESS, KEY_MNEMONIC, KEY_ENCRYPTION_KEY}

EmptyPrefs == [k \in PrefKeys |-> Null]

\* Base64.encodeToString(bytes, NO_WRAP) and Base64.decode(text, NO_WRAP)
Base64Encode(bytes) == <<"b64", bytes>>
Base64Decode(text) == text[2]

\* Ed25519PrivateKeyParameters.generatePublicKey()
GeneratePublicKey(privateKey) == <<"ed25519pk", privateKey>>

\* the first 32 bytes of the seed are the private key; the public key follows
generateKeyPairFromSeed(seed) ==
    LET privateKey == <<"ed25519sk", <<"copyOf32", seed>>>>
    IN  [private |-> privateKey, public |-> GeneratePublicKey(privateKey)]

\* "0x" + hex(SHA3-256(publicKey + 0x00))
deriveAptosAddress(publicKey) == <<"0x", <<"hex", <<"sha3_256", publicKey, 0>>>>>>

\* KeyGenerator("AES").init(256, SecureRandom()).generateKey(): rnd is the draw
generateEncryptionKey(rnd) == <<"aes256", rnd>>

\* Ed25519Signer over the raw message bytes
Ed25519Sign(privateKey, message) == <<"ed25519sig", privateKey, message>>

Ed25519Verify(publicKey, message, signature) ==
    /\ Len(signature) = 3
    /\ signature[1] = "ed25519sig"
    /\ GeneratePublicKey(signature[2]) = publicKey
    /\ signature[3] = message

RandomDraws == 1..MaxRand

\* AES/GCM/NoPadding with a 128-bit tag: ciphertext and tag in one value
GcmEncrypt(key, iv, data) == <<"gcm", key, iv, data>>

GcmOpensAnyIv(key, iv, ct) == Len(ct) = 4 /\ ct[1] = "gcm" /\ ct[2] = key

GcmOpens(key, iv, ct) == Len(ct) = 4 /\ ct[1] = "gcm" /\ ct[2] = key /\ ct[3] = iv

-----------------------------------------------------------------------------
(* CryptoManager: the operations, each as the outcome of one call on a     *)
(* store: the status, the store afterwards and the value returned          *)

Outcome(status, store, value) == [status |-> status, prefs |-> store, value |-> value]

\* the data classes WalletData and EncryptedData
WalletData(address, mnemonic, publicKey) == <<"WalletData", address, mnemonic, publicKey>>

EncryptedData(iv, data) == <<"EncryptedData", iv, data>>

IvOf(encryptedData) == encryptedData[2]

DataOf(encryptedData) == encryptedData[3]

\* the five putString calls of one edit(), applied together
StoreWalletMerging(store, privateKey, publicKey, address, mnemonic, encryptionKey) ==
    [store EXCEPT ![KEY_PRIVATE_KEY] = Base64Encode(privateKey),
                  ![KEY_PUBLIC_KEY] = Base64Encode(publicKey),
                  ![KEY_ADDRESS] = address,
                  ![KEY_MNEMONIC] = mnemonic,
                  ![KEY_ENCRYPTION_KEY] =
                      IF store[KEY_ENCRYPTION_KEY] # Null THEN store[KEY_ENCRYPTION_KEY]
                      ELSE Base64Encode(encryptionKey)]

StoreWallet(store, privateKey, publicKey, address, mnemonic, encryptionKey) ==
    [store EXCEPT ![KEY_PRIVATE_KEY] = Base64Encode(privateKey),
                  ![KEY_PUBLIC_KEY] = Base64Encode(publicKey),
                  ![KEY_ADDRESS] = address,
                  ![KEY_MNEMONIC] = mnemonic,
                  ![KEY_ENCRYPTION_KEY] = Base64Encode(encryptionKey)]

\* which phrase the key pair of an import is derived from
ImportSeedPhraseRaw(rawMnemonic) == rawMnemonic

ImportSeedPhrase(rawMnemonic) == CleanMnemonic(rawMnemonic)

\* the word-count test of an import
WordCountOkLoose(words) == Len(words) >= 12

WordCountOk(words) == Len(words) = 12 \/ Len(words) = 24

importWalletFromMnemonic(store, rawMnemonic, rnd) ==
    LET cleanMnemonic == CleanMnemonic(rawMnemonic)
        words == SplitOnSpace(cleanMnemonic)
        seed == ToSeed(ImportSeedPhrase(rawMnemonic))
        keyPair == generateKeyPairFromSeed(seed)
        address == deriveAptosAddress(keyPair.public)
        encryptionKey == generateEncryptionKey(rnd)
    IN  IF ~WordCountOk(words) \/ ~ChecksumValid(words)
        THEN Outcome("InvalidMnemonic", store, Null)
        ELSE Outcome("ok",
                     StoreWallet(store, keyPair.private, keyPair.public, address,
                                 cleanMnemonic, encryptionKey),
                     address)

processAndStoreWallet(store, mnemonicString, rnd) ==
    LET words == SplitOnSpace(mnemonicString)
        seed == ToSeed(mnemonicString)
        keyPair == generateKeyPairFromSeed(seed)
        address == deriveAptosAddress(keyPair.public)
        encryptionKey == generateEncryptionKey(rnd)
    IN  IF ~WordCountOk(words) \/ ~ChecksumValid(words)
        THEN Outcome("IllegalArgument", store, Null)
        ELSE Outcome("ok",
                     StoreWallet(store, keyPair.private, keyPair.public, address,
                                 mnemonicString, encryptionKey),
                     WalletData(address, mnemonicString, keyPair.public))

createNewWallet(store, generated, rnd) == processAndStoreWallet(store, generated, rnd)

getPrivateKeyBytes(store) ==
    IF store[KEY_PRIVATE_KEY] = Null THEN Null ELSE Base64Decode(store[KEY_PRIVATE_KEY])

hasWallet(store) == store[KEY_PRIVATE_KEY] # Null

signMessageLenient(store, message) ==
    IF getPrivateKeyBytes(store) = Null
    THEN LET made == processAndStoreWallet(store, CHOOSE g \in GeneratedMnemonics : TRUE, 1)
         IN  Outcome("ok", made.prefs,
                     Ed25519Sign(Base64Decode(made.prefs[KEY_PRIVATE_KEY]), message))
    ELSE Outcome("ok", store, Ed25519Sign(getPrivateKeyBytes(store), message))

signMessage(store, message) ==
    IF getPrivateKeyBytes(store) = Null
    THEN Outcome("NoWallet", store, Null)
    ELSE Outcome("ok", store, Ed25519Sign(getPrivateKeyBytes(store), message))

\* the key and the store afterwards: a missing key is made and stored
getEncryptionKey(store, rnd) ==
    IF store[KEY_ENCRYPTION_KEY] # Null
    THEN [key |-> Base64Decode(store[KEY_ENCRYPTION_KEY]), prefs |-> store]
    ELSE [key |-> generateEncryptionKey(rnd),
          prefs |-> [store EXCEPT ![KEY_ENCRYPTION_KEY] =
                                      Base64Encode(generateEncryptionKey(rnd))]]

encryptData(store, data, rndKey, rndIv) ==
    LET got == getEncryptionKey(store, rndKey)
        iv == <<"iv", rndIv>>
    IN  Outcome("ok", got.prefs,
                EncryptedData(Base64Encode(iv),
                              Base64Encode(GcmEncrypt(got.key, iv, data))))

decryptData(store, encryptedData, rndKey) ==
    LET got == getEncryptionKey(store, rndKey)
        iv == Base64Decode(IvOf(encryptedData))
        encryptedBytes == Base64Decode(DataOf(encryptedData))
    IN  IF GcmOpens(got.key, iv, encryptedBytes)
        THEN Outcome("ok", got.prefs, encryptedBytes[4])
        ELSE Outcome("AuthenticationFailure", got.prefs, Null)

logout(store) == Outcome("ok", EmptyPrefs, Null)

-----------------------------------------------------------------------------
(* KeyCustody as a state machine: one action per public call *)

Returned(op, arg, out) ==
    /\ prefs' = out.prefs
    /\ ret' = [op |-> op, arg |-> arg, status |-> out.status, value |-> out.value]
    /\ hadWallet' = (hadWallet \/ hasWallet(out.prefs))
    /\ UNCHANGED <<authVars, relayVars, outbox, sideVars>>

\* blobs as an attacker or a faulty disk hands them back
TamperIv(b) == EncryptedData(Base64Encode(<<"iv", 0>>), DataOf(b))
TamperData(b) == EncryptedData(IvOf(b), Base64Encode(<<"flipped", Base64Decode(DataOf(b))>>))
DecryptInputs == IF kept = Null THEN {} ELSE {kept, TamperIv(kept), TamperData(kept)}

CreateWallet ==
    \E g \in GeneratedMnemonics, rnd \in RandomDraws :
        /\ Returned("createWallet", g, createNewWallet(prefs, g, rnd))
        /\ UNCHANGED <<sample, kept>>

ImportWallet ==
    \E raw \in ImportInputs, rnd \in RandomDraws :
        /\ Returned("importWallet", raw, importWalletFromMnemonic(prefs, raw, rnd))
        /\ UNCHANGED <<sample, kept>>

\* the same call, with the observer free to remember it
ImportWalletObserved ==
    \E raw \in ImportInputs, rnd \in RandomDraws :
        LET out == importWalletFromMnemonic(prefs, raw, rnd)
            seen == [raw |-> raw,
                     clean |-> CleanMnemonic(raw),
                     before |-> prefs[KEY_ADDRESS],
                     privateKey |-> out.prefs[KEY_PRIVATE_KEY],
                     publicKey |-> out.prefs[KEY_PUBLIC_KEY],
                     address |-> out.value]
        IN  /\ Returned("importWallet", raw, out)
            /\ sample' \in (IF out.status = "ok" /\ sample = Null THEN {sample, seen} ELSE {sample})
            /\ UNCHANGED kept

Sign ==
    \E m \in SignInputs :
        /\ Returned("sign", m, signMessage(prefs, m))
        /\ UNCHANGED <<sample, kept>>

EncryptBlob ==
    \E data \in Plaintexts, rndKey \in RandomDraws, rndIv \in RandomDraws :
        LET out == encryptData(prefs, data, rndKey, rndIv)
        IN  /\ Returned("encryptBlob", data, out)
            /\ kept' \in {kept, out.value}
            /\ UNCHANGED sample

DecryptBlob ==
    \E b \in DecryptInputs, rndKey \in RandomDraws :
        /\ Returned("decryptBlob", b, decryptData(prefs, b, rndKey))
        /\ UNCHANGED <<sample, kept>>

Logout ==
    /\ Returned("logout", Null, logout(prefs))
    /\ UNCHANGED <<sample, kept>>

CustodyInit ==
    /\ prefs = EmptyPrefs
    /\ ret = [op |-> "init", arg |-> Null, status |-> "ok", value |-> Null]
    /\ hadWallet = FALSE
    /\ sample = Null
    /\ kept = Null

AuthInit ==
    /\ now = 0
    /\ wire = {}
    /\ consumed = {}
    /\ lastVerify = Null
    /\ attempted = {}

RelayInit ==
    /\ chain = <<>>
    /\ relayed = {}
    /\ lastRelay = Null

SideInit ==
    /\ lastRead = Null
    /\ calls = [w \in Workers |-> Null]
    /\ inflight = <<>>
    /\ nextSeq = [u \in Users |-> 0]
    /\ localStorage = Null
    /\ lastAuth = Null
    /\ story = Null
    /\ chapters = [n \in 1..MaxChapters |-> Null]
    /\ lastUnlock = Null

Init == CustodyInit /\ AuthInit /\ RelayInit /\ outbox = Null /\ SideInit

CustodyNext ==
    \/ CreateWallet
    \/ ImportWallet
    \/ Sign
    \/ EncryptBlob
    \/ DecryptBlob
    \/ Logout

SpecCustody == Init /\ [][CustodyNext]_vars

ImportNext ==
    \/ CreateWallet
    \/ ImportWalletObserved
    \/ Logout

SpecImport == Init /\ [][ImportNext]_vars

-----------------------------------------------------------------------------
(* createWallet and importWallet side by side: each call works out its     *)
(* identity on its own and hands the five putString calls to the store in  *)
(* one edit() ... apply()                                                  *)

\* the putString calls an editor has collected: what the call would write on
\* an empty store
PendingPuts(out) == out.prefs

\* which of the pending puts one apply() brings into the store in one step
CommitBatchSingle(editor) ==
    IF \E k \in PrefKeys : editor[k] # Null
    THEN {CHOOSE k \in PrefKeys : editor[k] # Null} ELSE {}

CommitBatch(editor) == {k \in PrefKeys : editor[k] # Null}

\* the store after the puts of a batch
Commit(store, editor, batch) ==
    [k \in PrefKeys |-> IF k \in batch THEN editor[k] ELSE store[k]]

\* a call up to its edit(): nothing of the store is read
StoreCall(w, op, out) ==
    /\ calls[w] = Null
    /\ calls' = [calls EXCEPT ![w] =
           [op |-> op, status |-> out.status, seen |-> prefs,
            pc |-> IF out.status = "ok" THEN "apply" ELSE "done",
            editor |-> IF out.status = "ok" THEN PendingPuts(out) ELSE EmptyPrefs,
            identity |-> IF out.status = "ok" THEN PendingPuts(out) ELSE EmptyPrefs]]
    /\ UNCHANGED <<custodyVars, authVars, relayVars, outbox, lastRead, inflight, nextSeq, webVars, storyVars>>

ConcurrentCreate ==
    \E w \in Workers, g \in GeneratedMnemonics, rnd \in RandomDraws :
        StoreCall(w, "createWallet", createNewWallet(EmptyPrefs, g, rnd))

ConcurrentImport ==
    \E w \in Workers, raw \in ImportInputs, rnd \in RandomDraws :
        StoreCall(w, "importWallet", importWalletFromMnemonic(EmptyPrefs, raw, rnd))

\* apply(): the editor's puts reach the store
StoreApply ==
    \E w \in Workers :
        /\ calls[w] # Null
        /\ calls[w].pc = "apply"
        /\ LET batch == CommitBatch(calls[w].editor)
               left == [k \in PrefKeys |-> IF k \in batch THEN Null ELSE calls[w].editor[k]]
           IN  /\ prefs' = Commit(prefs, calls[w].editor, batch)
               /\ hadWallet' = (hadWallet \/ hasWallet(prefs'))
               /\ calls' = [calls EXCEPT ![w] =
                      [calls[w] EXCEPT !.editor = left,
                                       !.pc = IF left = EmptyPrefs THEN "done" ELSE "apply"]]
        /\ UNCHANGED <<ret, sample, kept, authVars, relayVars, outbox,
                       lastRead, inflight, nextSeq, webVars, storyVars>>

StoreNext ==
    \/ ConcurrentCreate
    \/ ConcurrentImport
    \/ StoreApply
    \/ Sign

SpecStore == Init /\ [][StoreNext]_vars

-----------------------------------------------------------------------------
(* deriveAptosAddress, the text of the address: "0x" and two hex digits    *)
(* for each byte of the SHA3-256 digest                                    *)

\* the length of a SHA3-256 digest, in bytes
HashLen == 32

HexDigit(n) ==
    <<"0", "1", "2", "3", "4", "5", "6", "7", "8", "9", "a", "b", "c", "d", "e", "f">>[n + 1]

\* %x of a non-negative number: as many digits as it needs
RECURSIVE ToHex(_)
ToHex(n) == IF n < 16 THEN <<HexDigit(n)>> ELSE ToHex(n \div 16) \o <<HexDigit(n % 16)>>

\* the 0 flag with a width
RECURSIVE ZeroPad(_, _)
ZeroPad(s, width) == IF Len(s) >= width THEN s ELSE ZeroPad(<<"0">> \o s, width)

\* a Byte under %x: a negative one is taken plus 2^8
FormatByteUnpadded(b) == ToHex(IF b < 0 THEN b + 256 ELSE b)

\* "%02x".format(it)
FormatByte(b) == ZeroPad(ToHex(IF b < 0 THEN b + 256 ELSE b), 2)

\* "0x" + hash.joinToString("") { "%02x".format(it) }
RECURSIVE JoinBytes(_)
JoinBytes(hash) == IF hash = <<>> THEN <<>> ELSE FormatByte(Head(hash)) \o JoinBytes(Tail(hash))

hexAddress(hash) == <<"0", "x">> \o JoinBytes(hash)

\* bytes as Kotlin has them, -128..127: the ends, the one-digit values, the
\* first two-digit value and some with the high bit set
ByteSamples == {-128, -96, -16, -1, 0, 1, 9, 10, 15, 16, 127}

\* digests for deriveAptosAddress to format: two sample bytes in turn
Digests == {[i \in 1..HashLen |-> IF i % 2 = 1 THEN b1 ELSE b2] : b1 \in ByteSamples, b2 \in ByteSamples}

\* deriveAptosAddress on a public key whose digest is hash
DeriveAddress ==
    \E hash \in Digests :
        /\ ret' = [op |-> "deriveAptosAddress", arg |-> hash, status |-> "ok",
                   value |-> hexAddress(hash)]
        /\ UNCHANGED <<prefs, hadWallet, sample, kept, authVars, relayVars, outbox, sideVars>>

AddressNext == DeriveAddress

SpecAddress == Init /\ [][AddressNext]_vars

-----------------------------------------------------------------------------
(* KeyCustody: properties *)

\* C8: sign on a store that holds no private key fails with NoWallet, returns
\* no signature and leaves every field of the store as it was; no wallet and
\* no key is created by the call.
SignWithoutWalletFails ==
    [][(ret'.op = "sign" /\ prefs[KEY_PRIVATE_KEY] = Null)
          => (ret'.status = "NoWallet" /\ ret'.value = Null /\ prefs' = prefs)]_vars

\* a sign that failed with NoWallet after a logout wiped a stored wallet
SignAfterLogoutSeen ==
    /\ ret.op = "sign"
    /\ ret.status = "NoWallet"
    /\ hadWallet
    /\ prefs = EmptyPrefs

\* the words of each input after normalization, and whether they are a
\* phrase the wallet accepts: 12 or 24 words with a valid checksum
InputWords == [raw \in ImportInputs |-> SplitOnSpace(Sanitize(raw))]

InputAcceptable ==
    [raw \in ImportInputs |->
        Len(InputWords[raw]) \in {12, 24} /\ ChecksumValid(InputWords[raw])]

\* C9: an import whose normalized phrase has a word count other than 12 or 24,
\* or fails the checksum, fails with InvalidMnemonic and leaves the store
\* exactly as it was, so that sign answers as it did before the call.
InvalidImportLeavesStore ==
    [][(/\ ret'.op = "importWallet"
        /\ ~InputAcceptable[ret'.arg])
          => (/\ ret'.status = "InvalidMnemonic"
              /\ ret'.value = Null
              /\ prefs' = prefs
              /\ \A m \in SignInputs : signMessage(prefs', m) = signMessage(prefs, m))]_vars

\* a rejected import on a store that holds a wallet, which sign still uses
InvalidImportOnWalletSeen ==
    /\ ret.op = "importWallet"
    /\ ret.status = "InvalidMnemonic"
    /\ hasWallet(prefs)
    /\ \A m \in SignInputs : signMessage(prefs, m).status = "ok"

\* C10: two successful imports whose phrases are equal after normalization
\* store and return the same private key, public key and address, whatever
\* the store held before either call.
ImportDeterministic ==
    (/\ ret.op = "importWallet"
     /\ ret.status = "ok"
     /\ sample # Null
     /\ SanitizedInputs[sample.raw] = SanitizedInputs[ret.arg])
        => (/\ sample.privateKey = prefs[KEY_PRIVATE_KEY]
            /\ sample.publicKey = prefs[KEY_PUBLIC_KEY]
            /\ sample.address = prefs[KEY_ADDRESS]
            /\ sample.address = ret.value)

\* the same phrase imported twice, written differently, the first time over
\* another identity
SamePhraseImportedTwiceSeen ==
    /\ ret.op = "importWallet"
    /\ ret.status = "ok"
    /\ sample # Null
    /\ sample.raw # ret.arg
    /\ SanitizedInputs[sample.raw] = SanitizedInputs[ret.arg]
    /\ sample.before # Null
    /\ sample.before # sample.address

\* C11: a blob decrypts, right after encryptBlob made it, to the plaintext it
\* was made from; and a later decryptBlob returns that plaintext when the blob
\* is unaltered and the envelope key in use is the one it was made under, and
\* otherwise (IV altered, ciphertext altered, another envelope key) fails with
\* AuthenticationFailure and returns nothing.
BlobRoundTripAndTamper ==
    [][/\ ret'.op = "encryptBlob"
            => \A rndKey \in 1..MaxRand :
                  /\ decryptData(prefs', ret'.value, rndKey).status = "ok"
                  /\ decryptData(prefs', ret'.value, rndKey).value = ret'.arg
       /\ (ret'.op = "decryptBlob" /\ kept # <<>>)
            => IF /\ ret'.arg = kept
                  /\ kept[3][2][2] = prefs'["encryption_key"][2]
               THEN ret'.status = "ok" /\ ret'.value = kept[3][2][4]
               ELSE ret'.status = "AuthenticationFailure" /\ ret'.value = <<>>]_vars

\* an unaltered blob was refused because the wallet, and with it the envelope
\* key, was replaced after the blob was made
BlobRefusedUnderOtherKeySeen ==
    /\ ret.op = "decryptBlob"
    /\ ret.status = "AuthenticationFailure"
    /\ kept # <<>>
    /\ ret.arg = kept
    /\ prefs["private_key"] # <<>>

\* C12: a successful createWallet or importWallet on a store that holds a
\* private key leaves exactly the five fields this call computes from its
\* phrase and its own random draw (private key, public key and address from
\* the phrase, the phrase itself, a fresh envelope key), whatever the store
\* held, and the stored address is the one derived from the stored public key.
ReimportOverwrites ==
    [][(/\ ret'.op \in {"createWallet", "importWallet"}
        /\ ret'.status = "ok"
        /\ prefs["private_key"] # <<>>)
          => LET clean == IF ret'.op = "importWallet" THEN SanitizedInputs[ret'.arg]
                          ELSE ret'.arg
                 sk == <<"ed25519sk", <<"copyOf32", <<"pbkdf2", clean>>>>>>
                 pk == <<"ed25519pk", sk>>
                 Written(rnd) ==
                     [private_key |-> <<"b64", sk>>,
                      public_key |-> <<"b64", pk>>,
                      wallet_address |-> <<"0x", <<"hex", <<"sha3_256", pk, 0>>>>>>,
                      mnemonic |-> clean,
                      encryption_key |-> <<"b64", <<"aes256", rnd>>>>]
                 Call(rnd) ==
                     IF ret'.op = "importWallet"
                     THEN importWalletFromMnemonic(prefs, ret'.arg, rnd)
                     ELSE createNewWallet(prefs, ret'.arg, rnd)
             IN  /\ \E rnd \in 1..MaxRand : prefs' = Written(rnd)
                 /\ \A rnd \in 1..MaxRand : Call(rnd).prefs = Written(rnd)
                 /\ prefs'["wallet_address"] =
                        <<"0x", <<"hex", <<"sha3_256", prefs'["public_key"][2], 0>>>>>>]_vars

\* an import that replaced another identity: the address stored before it
\* differs from the one stored now
IdentityReplacedSeen ==
    /\ ret.op = "importWallet"
    /\ ret.status = "ok"
    /\ sample # <<>>
    /\ ret.arg = sample.raw
    /\ sample.before # <<>>
    /\ sample.before # prefs["wallet_address"]
    /\ sample.address = prefs["wallet_address"]

\* C13: logout leaves a store without private key, public key, address,
\* mnemonic and envelope key, on which hasWallet is false and sign fails with
\* NoWallet; and on the store a logout left behind, every call other than
\* createWallet and importWallet leaves it so.
LogoutWipesForGood ==
    [][/\ ret'.op = "logout"
            => /\ prefs' = [k \in {"private_key", "public_key", "wallet_address",
                                   "mnemonic", "encryption_key"} |-> <<>>]
               /\ ~hasWallet(prefs')
               /\ \A m \in SignInputs : signMessage(prefs', m).status = "NoWallet"
       /\ (/\ hadWallet
           /\ \A k \in DOMAIN prefs : prefs[k] = <<>>
           /\ ret'.op \notin {"createWallet", "importWallet"})
            => /\ \A k \in DOMAIN prefs' : prefs'[k] = <<>>
               /\ ~hasWallet(prefs')
               /\ \A m \in SignInputs : signMessage(prefs', m).status = "NoWallet"]_vars

\* C14: the address deriveAptosAddress writes for a digest is "0x" followed
\* by exactly 64 characters, each one of 0-9 and a-f.
AddressWellFormed ==
    ret.op = "deriveAptosAddress"
        => /\ Len(ret.value) = 66
           /\ ret.value[1] = "0"
           /\ ret.value[2] = "x"
           /\ \A i \in 3..66 :
                ret.value[i] \in {"0", "1", "2", "3", "4", "5", "6", "7", "8", "9",
                                  "a", "b", "c", "d", "e", "f"}

\* a digest with a negative byte and a byte below 16, which needs its zero
AddressOfAwkwardDigestSeen ==
    /\ ret.op = "deriveAptosAddress"
    /\ ret.arg[1] < 0
    /\ ret.arg[2] \in 0..15

-----------------------------------------------------------------------------
(* Web client (WalletContext.tsx): the wallet extension holds the keys and *)
(* hands the page an account and signatures                                *)

WalletKey(u) == <<"ed25519sk", <<"wallet", u>>>>

\* toHexString(Uint8Array): "0x" + two hex digits per byte
toHexString(bytes) == <<"0x", <<"hex", bytes>>>>

\* s.startsWith('0x') ? s.slice(2) : s
StripHexPrefix(h) == IF Len(h) = 2 /\ h[1] = "0x" THEN h[2] ELSE h

\* the account the adapter reports for a wallet
WalletAccount(u) ==
    [address |-> deriveAptosAddress(GeneratePublicKey(WalletKey(u))),
     publicKey |-> toHexString(GeneratePublicKey(WalletKey(u)))]

generateAuthMessage(address, timestamp) ==
    <<"Sign this message to authenticate with LifeVault.\n\nWallet: ", address,
      "\nTimestamp: ", timestamp,
      "\n\nThis signature will not trigger any blockchain transaction or cost any gas fees.">>

\* Date.now().toString() + Math.random().toString(36).substring(2)
MakeNonce(timestamp, rnd) == <<"nonce", timestamp, rnd>>

\* signMessage: the wallet signs, the page strips the 0x of the signature
walletSignMessage(u, message, timestamp, rnd) ==
    LET nonce == MakeNonce(timestamp, rnd)
        response == [signature |-> Ed25519Sign(WalletKey(u), message),
                     fullMessage |-> <<"APTOS", message, nonce>>,
                     nonce |-> nonce]
    IN  [signature |-> StripHexPrefix(toHexString(response.signature)),
         fullMessage |-> response.fullMessage,
         nonce |-> response.nonce,
         message |-> message]

\* authenticateWithWallet up to api.post('/auth/wallet', requestData)
AuthRequest(u, timestamp, rnd) ==
    LET walletAccount == WalletAccount(u)
        message == generateAuthMessage(walletAccount.address, timestamp)
        signResult == walletSignMessage(u, message, timestamp, rnd)
    IN  [address |-> walletAccount.address,
         publicKey |-> StripHexPrefix(walletAccount.publicKey),
         signature |-> StripHexPrefix(signResult.signature),
         message |-> signResult.message,
         fullMessage |-> signResult.fullMessage,
         nonce |-> signResult.nonce]

\* the text linkWalletToAccount asks the wallet to sign
generateLinkMessage(address, timestamp) ==
    <<"Link this wallet to your LifeVault account.\n\nWallet: ", address,
      "\nTimestamp: ", timestamp>>

\* linkWalletToAccount up to api.post('/auth/link-wallet', requestData)
LinkRequest(u, timestamp, rnd) ==
    LET walletAccount == WalletAccount(u)
        message == generateLinkMessage(walletAccount.address, timestamp)
        signResult == walletSignMessage(u, message, timestamp, rnd)
    IN  [address |-> walletAccount.address,
         publicKey |-> StripHexPrefix(walletAccount.publicKey),
         signature |-> StripHexPrefix(signResult.signature),
         message |-> signResult.message,
         fullMessage |-> signResult.fullMessage,
         nonce |-> signResult.nonce]

-----------------------------------------------------------------------------
(* Backend challenge verification, from the specification (4.2) *)

\* the fixed lifetime of a challenge
ChallengeTtl == 1

FromHex(h) == h[2]

\* the timestamp embedded in a challenge message
TimestampOf(message) == message[4]

WithinTtlLax(timestamp, serverNow) == timestamp <= serverNow

WithinTtl(timestamp, serverNow) ==
    timestamp <= serverNow /\ serverNow - timestamp <= ChallengeTtl

\* the account record the token is made for
UserFor(address) == [id |-> <<"user", address>>, aptosAddress |-> address]

generateAuthTokenAnonymous(user, issuedAt) ==
    <<"jwt", [id |-> user.id, aptosAddress |-> Null, iat |-> issuedAt]>>

\* jwt.sign({id, email, aptosAddress}, secret, {expiresIn})
generateAuthToken(user, issuedAt) ==
    <<"jwt", [id |-> user.id, aptosAddress |-> user.aptosAddress, iat |-> issuedAt]>>

\* the subject address a token carries
TokenSubject(token) == token[2].aptosAddress

\* what step 4 leaves in the set of consumed nonces
ConsumeNonceForgetful(used, nonce) == used

ConsumeNonce(used, nonce) == used \cup {nonce}

\* the address check of step 1
AddressMatches(address, publicKey) == deriveAptosAddress(publicKey) = address

\* the checks with the replay test ahead of the expiry test
verifyReplayFirst(req, serverNow, used) ==
    LET publicKey == FromHex(req.publicKey)
        signature == FromHex(req.signature)
        rejected(why) == [result |-> why, consumed |-> used, token |-> Null]
    IN  IF ~AddressMatches(req.address, publicKey) THEN rejected("AddressMismatch")
        ELSE IF ~Ed25519Verify(publicKey, req.message, signature)
             THEN rejected("SignatureInvalid")
        ELSE IF req.nonce \in used THEN rejected("ReplayDetected")
        ELSE IF ~WithinTtl(TimestampOf(req.message), serverNow) THEN rejected("Expired")
        ELSE [result |-> "Verified",
              consumed |-> ConsumeNonce(used, req.nonce),
              token |-> generateAuthToken(UserFor(req.address), serverNow)]

verify(req, serverNow, used) ==
    LET publicKey == FromHex(req.publicKey)
        signature == FromHex(req.signature)
        rejected(why) == [result |-> why, consumed |-> used, token |-> Null]
    IN  IF ~AddressMatches(req.address, publicKey) THEN rejected("AddressMismatch")
        ELSE IF ~Ed25519Verify(publicKey, req.message, signature)
             THEN rejected("SignatureInvalid")
        ELSE IF ~WithinTtl(TimestampOf(req.message), serverNow) THEN rejected("Expired")
        ELSE IF req.nonce \in used THEN rejected("ReplayDetected")
        ELSE [result |-> "Verified",
              consumed |-> ConsumeNonce(used, req.nonce),
              token |-> generateAuthToken(UserFor(req.address), serverNow)]

-----------------------------------------------------------------------------
(* Authentication as a state machine *)

ClockSkews == {0, 1}

OtherUser(u) == CHOOSE v \in Users : v # u

\* who a request claims to come from
ClaimedUser(req) ==
    IF \E u \in Users : WalletAccount(u).address = req.address
    THEN CHOOSE u \in Users : WalletAccount(u).address = req.address
    ELSE "alice"

\* a posted request as the network may deliver it: as sent, or with one
\* field replaced by a third party
Tampered(req) ==
    LET other == WalletAccount(OtherUser(ClaimedUser(req)))
    IN  {[req EXCEPT !.signature = <<"hex", <<"garbage">>>>],
         [req EXCEPT !.publicKey = StripHexPrefix(other.publicKey)],
         [req EXCEPT !.address = other.address],
         [req EXCEPT !.address = other.address,
                     !.publicKey = StripHexPrefix(other.publicKey)],
         [req EXCEPT !.message = generateAuthMessage(req.address, TimestampOf(req.message) + 1)]}

Deliverable == wire \cup UNION {Tampered(r) : r \in wire}

Tick ==
    /\ now < MaxTime
    /\ now' = now + 1
    /\ UNCHANGED <<wire, consumed, lastVerify, attempted, custodyVars, relayVars, outbox, sideVars>>

\* the page signs a challenge and posts it; the device clock may run ahead
AuthSend ==
    \E u \in Users, skew \in ClockSkews, rnd \in RandomDraws :
        /\ Cardinality(wire) < MaxWire
        /\ wire' = wire \cup {AuthRequest(u, now + skew, rnd)}
        /\ UNCHANGED <<now, consumed, lastVerify, attempted, custodyVars, relayVars, outbox, sideVars>>

\* a call whose address matches its public key, whose signature is good for
\* its message and whose timestamp lies inside the window at the server's time
ValidCall(req, serverNow) ==
    /\ <<"0x", <<"hex", <<"sha3_256", FromHex(req.publicKey), 0>>>>>> = req.address
    /\ Ed25519Verify(FromHex(req.publicKey), req.message, FromHex(req.signature))
    /\ TimestampOf(req.message) <= serverNow
    /\ serverNow - TimestampOf(req.message) <= ChallengeTtl

\* the backend handles one delivered request
Verify ==
    \E req \in Deliverable :
        LET out == verify(req, now, consumed)
        IN  /\ consumed' = out.consumed
            /\ lastVerify' = [req |-> req, result |-> out.result, token |-> out.token]
            /\ attempted' = attempted \cup {<<req.nonce, ValidCall(req, now)>>}
            /\ UNCHANGED <<now, wire, custodyVars, relayVars, outbox, sideVars>>

AuthNext ==
    \/ Tick
    \/ AuthSend
    \/ Verify

SpecAuth == Init /\ [][AuthNext]_vars

-----------------------------------------------------------------------------
(* Concurrent verification, from the specification (5): handlers run side   *)
(* by side and meet only at the atomic consumption of the nonce            *)

\* steps 1 to 3 of a verification, which read nothing shared
VerifyChecks(req, serverNow) ==
    LET out == verify(req, serverNow, {})
    IN  IF out.result = "Verified" THEN "passed" ELSE out.result

\* the test of step 4, made on what the handler read when it began
NonceUnconsumedStale(used, seen, nonce) == nonce \notin seen

\* the test of step 4, made on the store in the step that marks the nonce
NonceUnconsumed(used, seen, nonce) == nonce \notin used

\* a handler takes a delivered request and runs steps 1 to 3
VerifyBegin ==
    \E w \in Workers, req \in Deliverable :
        LET checks == VerifyChecks(req, now)
        IN  /\ calls[w] = Null
            /\ calls' = [calls EXCEPT ![w] =
                   [req |-> req, at |-> now, seen |-> consumed,
                    pc |-> IF checks = "passed" THEN "consume" ELSE "done",
                    result |-> checks, token |-> Null]]
            /\ UNCHANGED <<custodyVars, authVars, relayVars, outbox,
                           lastRead, inflight, nextSeq, webVars, storyVars>>

\* step 4 as one step: check-and-set of the nonce, then the token
VerifyConsume ==
    \E w \in Workers :
        /\ calls[w] # Null
        /\ calls[w].pc = "consume"
        /\ LET call == calls[w]
               fresh == NonceUnconsumed(consumed, call.seen, call.req.nonce)
           IN  /\ consumed' = IF fresh THEN ConsumeNonce(consumed, call.req.nonce)
                              ELSE consumed
               /\ calls' = [calls EXCEPT ![w] =
                      [call EXCEPT !.pc = "done",
                                   !.result = IF fresh THEN "Verified"
                                              ELSE "ReplayDetected",
                                   !.token = IF fresh
                                             THEN generateAuthToken(UserFor(call.req.address), now)
                                             ELSE Null]]
        /\ UNCHANGED <<now, wire, lastVerify, attempted, custodyVars, relayVars,
                       outbox, lastRead, inflight, nextSeq, webVars, storyVars>>

ConcurrentNext ==
    \/ Tick
    \/ AuthSend
    \/ VerifyBegin
    \/ VerifyConsume

SpecConcurrent == Init /\ [][ConcurrentNext]_vars

-----------------------------------------------------------------------------
(* Relay: the Android client (AptosClient.submitRealMemory) and the        *)
(* backend's relay endpoint, the latter from the specification (4.3)       *)

Text(t) == <<"text", t>>
Long(n) == <<"long", n>>

ContentHashes == {Text("Qm1"), Text("Qm2")}

\* the session credential of a signed-in user, and no credential at all
SessionToken(u) == generateAuthToken(UserFor(WalletAccount(u).address), 0)
NoToken == Text("")
Sessions == {SessionToken(u) : u \in Users} \cup {NoToken}

\* RelayRequest as submitRealMemory fills it in
RelayRequest(title, ipfsHash, signatureHex, fileName, fileSize) ==
    [title |-> title,
     ipfsHash |-> ipfsHash,
     signature |-> signatureHex,
     category |-> Text("General"),
     fileName |-> fileName,
     fileSize |-> fileSize]

\* the bytes the caller signs: the descriptor without the signature
CanonicalPayload(req) ==
    <<"payload", req.title, req.ipfsHash, req.category, req.fileName, req.fileSize>>

\* the caller signs with the device wallet and passes the hex on
SignedRelayRequest(signer, ipfsHash) ==
    LET unsigned == RelayRequest(Text("Trip"), ipfsHash, Null, Text("a.jpg"), Long(7))
    IN  [unsigned EXCEPT !.signature =
            StripHexPrefix(toHexString(Ed25519Sign(WalletKey(signer), CanonicalPayload(unsigned))))]

\* backend: the address a bearer token stands for, or Null
SessionAddress(token) ==
    IF token \in {SessionToken(u) : u \in Users} THEN TokenSubject(token) ELSE Null

\* backend: the public key registered for an address at authentication
RegisteredKey(address) ==
    GeneratePublicKey(WalletKey(CHOOSE u \in Users : WalletAccount(u).address = address))

\* backend: which key a relay signature is checked against
RelayVerificationKeyAnyUser(sessionAddress, req) ==
    IF \E u \in Users : Ed25519Verify(GeneratePublicKey(WalletKey(u)),
                                       CanonicalPayload(req), FromHex(req.signature))
    THEN GeneratePublicKey(WalletKey(CHOOSE u \in Users :
             Ed25519Verify(GeneratePublicKey(WalletKey(u)),
                           CanonicalPayload(req), FromHex(req.signature))))
    ELSE RegisteredKey(sessionAddress)

RelayVerificationKey(sessionAddress, req) == RegisteredKey(sessionAddress)

\* backend: the result already recorded for a dedup key, or Null
RecordedResultNone(table, address, ipfsHash) == Null

RecordedResult(table, address, ipfsHash) ==
    IF \E e \in table : e.address = address /\ e.ipfsHash = ipfsHash
    THEN (CHOOSE e \in table : e.address = address /\ e.ipfsHash = ipfsHash).result
    ELSE Null

ExplorerUrl(hash) == <<"explorer", hash>>

\* the reason phrase of a status line
StatusText(code) ==
    CASE code = 200 -> Text("OK")
      [] code = 400 -> Text("Bad Request")
      [] code = 401 -> Text("Unauthorized")
      [] code = 502 -> Text("Bad Gateway")
      [] OTHER -> Text("")

\* a reply as retrofit2.Response shows it: a 2xx reply has a parsed body and
\* no error body, any other reply an error body and no parsed body; failure
\* is the IOException's message when no reply arrived
Reply(failure, code, body, errorBody) ==
    [failure |-> failure, code |-> code, message |-> StatusText(code),
     body |-> body, errorBody |-> errorBody]

\* the backend's JSON reply {success, message, data} under a status code
HttpResponse(code, success, message, data) ==
    LET json == [success |-> success, message |-> message, data |-> data]
    IN  IF code \in 200..299 THEN Reply(Null, code, json, Null)
        ELSE Reply(Null, code, Null, <<"json", json>>)

\* backend: one relay request; nodeUp says whether the node accepts the
\* transaction.  The outcome: the response, the chain and the dedup table.
relay(token, req, nodeUp, ledger, table) ==
    LET address == SessionAddress(token)
        unchanged(resp) == [response |-> resp, chain |-> ledger, relayed |-> table]
        hash == <<"tx", Len(ledger) + 1>>
        result == [hash |-> hash, explorerUrl |-> ExplorerUrl(hash)]
    IN  IF address = Null
        THEN unchanged(HttpResponse(401, FALSE, Text("Unauthorized"), Null))
        ELSE IF ~Ed25519Verify(RelayVerificationKey(address, req), CanonicalPayload(req),
                               FromHex(req.signature))
        THEN unchanged(HttpResponse(400, FALSE, Text("SignatureInvalid"), Null))
        ELSE IF RecordedResult(table, address, req.ipfsHash) # Null
        THEN unchanged(HttpResponse(200, TRUE, Text("Already relayed"),
                                    [tx |-> RecordedResult(table, address, req.ipfsHash)]))
        ELSE IF ~nodeUp
        THEN unchanged(HttpResponse(502, FALSE, Text("RelayFailed: node error"), Null))
        ELSE [response |-> HttpResponse(200, TRUE, Text("Relayed"), [tx |-> result]),
              chain |-> Append(ledger, [sender |-> address, title |-> req.title,
                                        ipfsHash |-> req.ipfsHash, category |-> req.category,
                                        hash |-> hash, request |-> req]),
              relayed |-> table \cup {[address |-> address, ipfsHash |-> req.ipfsHash,
                                       result |-> result]}]

\* JSONObject(errorBody ?: "{}").optString("message", response.message()),
\* and response.message() when the error body is not JSON
ErrorMessage(response) ==
    IF response.errorBody = Null THEN response.message
    ELSE IF response.errorBody[1] # "json" THEN response.message
    ELSE IF "message" \in DOMAIN response.errorBody[2] THEN response.errorBody[2].message
    ELSE response.message

\* submitRealMemory after the call: the hash returned, or the exception thrown
submitRealMemoryReturn(response) ==
    IF response.failure # Null
    THEN [threw |-> TRUE, value |-> response.failure]
    ELSE IF response.code \in 200..299 /\ response.body # Null /\ response.body.success
    THEN [threw |-> FALSE,
          value |-> IF response.body.data = Null THEN Text("")
                    ELSE IF response.body.data.tx = Null THEN Text("")
                    ELSE response.body.data.tx.hash]
    ELSE [threw |-> TRUE,
          value |-> <<"Relay Failed: ", ErrorMessage(response)>>]

\* one submitRealMemory call from the request to the return
RelayCall ==
    \E signer \in Users, token \in Sessions, ipfsHash \in ContentHashes, nodeUp \in BOOLEAN :
        LET req == SignedRelayRequest(signer, ipfsHash)
            out == relay(token, req, nodeUp, chain, relayed)
        IN  /\ Len(out.chain) <= MaxTx
            /\ chain' = out.chain
            /\ relayed' = out.relayed
            /\ lastRelay' = [token |-> token, req |-> req, sent |-> <<req>>,
                              response |-> out.response,
                              returned |-> submitRealMemoryReturn(out.response)]
            /\ UNCHANGED <<custodyVars, authVars, outbox, sideVars>>

RelayNext == RelayCall

SpecRelay == Init /\ [][RelayNext]_vars

\* replies a backend, a proxy in front of it or the network can give
Replies ==
    {Reply(Text("timeout"), 0, Null, Null),
     Reply(Text("Unable to resolve host"), 0, Null, Null),
     HttpResponse(200, TRUE, Text("Relayed"),
                  [tx |-> [hash |-> <<"tx", 1>>, explorerUrl |-> ExplorerUrl(<<"tx", 1>>)]]),
     HttpResponse(200, TRUE, Text("Relayed"), Null),
     HttpResponse(200, FALSE, Text("SignatureInvalid"), Null),
     HttpResponse(400, FALSE, Text("SignatureInvalid"), Null),
     HttpResponse(401, FALSE, Text("Unauthorized"), Null),
     HttpResponse(502, FALSE, Text("RelayFailed: node error"), Null),
     Reply(Null, 502, Null, <<"json", [error |-> Text("upstream")]>>),
     Reply(Null, 502, Null, <<"html", Text("<h1>Bad Gateway</h1>")>>),
     Reply(Null, 400, Null, Null)}

\* one submitRealMemory call against whatever answers
RelayCallAnyReply ==
    \E signer \in Users, token \in Sessions, ipfsHash \in ContentHashes, reply \in Replies :
        LET req == SignedRelayRequest(signer, ipfsHash)
        IN  /\ lastRelay' = [token |-> token, req |-> req, sent |-> <<req>>,
                              response |-> reply,
                              returned |-> submitRealMemoryReturn(reply)]
            /\ UNCHANGED <<chain, relayed, custodyVars, authVars, outbox, sideVars>>

SubmitNext == RelayCallAnyReply

SpecSubmit == Init /\ [][SubmitNext]_vars

-----------------------------------------------------------------------------
(* Relay submissions side by side, from the specification (5): between the  *)
(* construction of a transaction and its acceptance by the node the        *)
(* backend holds the address                                               *)

\* whose account an address is
AccountOwner(address) == CHOOSE u \in Users : WalletAccount(u).address = address

\* a request that passes the session, signature and idempotency checks and
\* so leads to a transaction
Constructs(token, req, ledger, table) ==
    relay(token, req, TRUE, ledger, table).chain # ledger

\* the mutual exclusion per address
AddressFreeAlways(queue, address) == TRUE

AddressFree(queue, address) ==
    \A i \in DOMAIN queue : queue[i].address # address

\* the queue without its i-th entry
WithoutEntry(queue, i) ==
    [k \in 1..(Len(queue) - 1) |-> IF k < i THEN queue[k] ELSE queue[k + 1]]

\* the backend takes a relay request of a signed-in user and constructs the
\* transaction with the sequence number it reads for the address
RelayBegin ==
    \E u \in Users, ipfsHash \in ContentHashes :
        LET token == SessionToken(u)
            req == SignedRelayRequest(u, ipfsHash)
            address == SessionAddress(token)
        IN  /\ Len(chain) + Len(inflight) < MaxTx
            /\ Constructs(token, req, chain, relayed)
            /\ AddressFree(inflight, address)
            /\ inflight' = Append(inflight,
                   [address |-> address, token |-> token, req |-> req,
                    seq |-> nextSeq[AccountOwner(address)]])
            /\ UNCHANGED <<custodyVars, authVars, relayVars, outbox,
                           lastRead, calls, nextSeq, webVars, storyVars>>

\* the node answers a submitted transaction: it takes the one that carries
\* the account's current sequence number and refuses any other
RelayAccept ==
    \E i \in DOMAIN inflight :
        LET r == inflight[i]
            owner == AccountOwner(r.address)
            out == relay(r.token, r.req, TRUE, chain, relayed)
            taken == r.seq = nextSeq[owner]
        IN  /\ chain' = IF taken THEN out.chain ELSE chain
            /\ relayed' = IF taken THEN out.relayed ELSE relayed
            /\ nextSeq' = IF taken /\ out.chain # chain
                          THEN [nextSeq EXCEPT ![owner] = @ + 1] ELSE nextSeq
            /\ inflight' = WithoutEntry(inflight, i)
            /\ UNCHANGED <<custodyVars, authVars, lastRelay, outbox, lastRead, calls, webVars, storyVars>>

\* the node cannot be reached: the submission ends with RelayFailed
RelayNodeError ==
    \E i \in DOMAIN inflight :
        /\ inflight' = WithoutEntry(inflight, i)
        /\ UNCHANGED <<custodyVars, authVars, relayVars, outbox,
                       lastRead, calls, nextSeq, webVars, storyVars>>

SerialNext ==
    \/ RelayBegin
    \/ RelayAccept
    \/ RelayNodeError

SpecSerial == Init /\ [][SerialNext]_vars

-----------------------------------------------------------------------------
(* What the clients put on the network *)

Message(to, path, header, body) == [to |-> to, path |-> path, header |-> header, body |-> body]

\* the relay request of the device wallet: the caller signs the descriptor
\* with CryptoManager.signMessage and hands the hex to submitRealMemory
DeviceRelayRequestLeaky(store, ipfsHash) ==
    LET unsigned == RelayRequest(Text("Trip"), ipfsHash, Null, Text("a.jpg"), Long(7))
    IN  [unsigned EXCEPT !.signature = <<"hex", getPrivateKeyBytes(store)>>]

DeviceRelayRequest(store, ipfsHash) ==
    LET unsigned == RelayRequest(Text("Trip"), ipfsHash, Null, Text("a.jpg"), Long(7))
    IN  [unsigned EXCEPT !.signature =
            <<"hex", signMessage(store, CanonicalPayload(unsigned)).value>>]

\* getBalance: GET {NODE_URL}/accounts/{address}/resource/{resourceType}
BalanceRequest(address) ==
    Message("node",
            <<Text("accounts"), address, Text("resource"),
              Text("0x1::coin::CoinStore<0x1::aptos_coin::AptosCoin>")>>,
            Null, Null)

\* fetchUserMemories: POST {NODE_URL}/view
ViewRequest(address) ==
    Message("node", <<Text("view")>>, Null,
            [function |-> Text("get_memories"),
             type_arguments |-> <<>>,
             arguments |-> <<address>>])

\* the addresses a device asks the node about: its own, or one it was given
ReadAddresses(store) ==
    {WalletAccount(u).address : u \in Users}
        \cup (IF store[KEY_ADDRESS] = Null THEN {} ELSE {store[KEY_ADDRESS]})

SendAuth ==
    \E u \in Users, skew \in ClockSkews, rnd \in RandomDraws :
        /\ outbox' = Message("backend", <<Text("auth"), Text("wallet")>>, Null,
                              AuthRequest(u, now + skew, rnd))
        /\ UNCHANGED <<custodyVars, authVars, relayVars, sideVars>>

SendLink ==
    \E u \in Users, skew \in ClockSkews, rnd \in RandomDraws :
        /\ outbox' = Message("backend", <<Text("auth"), Text("link-wallet")>>, Null,
                              LinkRequest(u, now + skew, rnd))
        /\ UNCHANGED <<custodyVars, authVars, relayVars, sideVars>>

SendRelay ==
    \E token \in Sessions, ipfsHash \in ContentHashes :
        /\ hasWallet(prefs)
        /\ outbox' = Message("backend", <<Text("memories"), Text("relay")>>,
                              <<"Bearer ", token>>, DeviceRelayRequest(prefs, ipfsHash))
        /\ UNCHANGED <<custodyVars, authVars, relayVars, sideVars>>

SendBalanceRead ==
    \E address \in ReadAddresses(prefs) :
        /\ outbox' = BalanceRequest(address)
        /\ UNCHANGED <<custodyVars, authVars, relayVars, sideVars>>

SendViewCall ==
    \E address \in ReadAddresses(prefs) :
        /\ outbox' = ViewRequest(address)
        /\ UNCHANGED <<custodyVars, authVars, relayVars, sideVars>>

WireNext ==
    \/ CreateWallet
    \/ ImportWallet
    \/ Logout
    \/ SendAuth
    \/ SendLink
    \/ SendRelay
    \/ SendBalanceRead
    \/ SendViewCall

SpecWire == Init /\ [][WireNext]_vars

-----------------------------------------------------------------------------
(* authenticateWithWallet (WalletContext.tsx) from the click to the value  *)
(* the promise resolves to                                                 *)

\* what the adapter has for accountRef.current within the wait
AccountKinds == {"none", "noPublicKey", "full"}

\* what the wallet does with the request to sign
SignKinds == {"signed", "declined", "noSignature"}

\* the value the promise resolves to
AuthOutcome(success, token, error) == [success |-> success, token |-> token, error |-> error]

\* the steps before the post: the error they end in, or the request they make
AuthPrepare(u, connected, connectOk, accountKind, signKind, timestamp, rnd) ==
    LET failed(why) == [error |-> Text(why), request |-> Null]
    IN  IF ~connected /\ ~connectOk THEN failed("Could not find Petra wallet")
        ELSE IF accountKind = "none"
             THEN failed("Could not get wallet account. Please try again.")
        ELSE IF accountKind = "noPublicKey" THEN failed("Invalid wallet account data")
        ELSE IF ~connected THEN failed("Wallet not connected")
        ELSE IF signKind = "declined" THEN failed("User rejected the request")
        ELSE IF signKind = "noSignature" THEN failed("Failed to sign message")
        ELSE [error |-> Null, request |-> AuthRequest(u, timestamp, rnd)]

\* api.post('/auth/wallet', requestData): no answer, or the backend's answer
NoAnswer == [failure |-> Text("Network Error"), status |-> 0, message |-> Null, token |-> Null]

AuthReply(out) ==
    IF out.result = "Verified"
    THEN [failure |-> Null, status |-> 200, message |-> Text("Wallet authenticated"),
          token |-> out.token]
    ELSE [failure |-> Null, status |-> 401, message |-> Text(out.result), token |-> Null]

\* error.response?.data?.message || error.message || 'Authentication failed'
AuthErrorText(reply) ==
    IF reply.message # Null THEN reply.message
    ELSE IF reply.failure # Null THEN reply.failure
    ELSE Text("Authentication failed")

\* localStorage after the call
StoredAfterClearing(storage, reply) ==
    IF reply # Null /\ reply.status \in 200..299 THEN reply.token ELSE Null

StoredAfter(storage, reply) ==
    IF reply # Null /\ reply.status \in 200..299 THEN reply.token ELSE storage

\* the value resolved to, from the steps before the post and the answer
AuthResolve(prepared, reply) ==
    IF prepared.error # Null THEN AuthOutcome(FALSE, Null, prepared.error)
    ELSE IF reply.status \in 200..299 THEN AuthOutcome(TRUE, reply.token, Null)
    ELSE AuthOutcome(FALSE, Null, AuthErrorText(reply))

\* who clicks, the clock of the page, the draw of the nonce and whether the
\* post is answered; a call that posts nothing has one such choice
AuthPosts ==
    [user : Users, skew : ClockSkews, rnd : RandomDraws, answered : BOOLEAN]

QuietPost == [user |-> "alice", skew |-> 0, rnd |-> 1, answered |-> TRUE]

AuthenticateWithWallet ==
    \E connected \in BOOLEAN, connectOk \in BOOLEAN,
       accountKind \in AccountKinds, signKind \in SignKinds,
       p \in AuthPosts :
        LET u == p.user
            skew == p.skew
            rnd == p.rnd
            answered == p.answered
            prepared == AuthPrepare(u, connected, connectOk, accountKind, signKind,
                                    now + skew, rnd)
            posted == prepared.request # Null
            out == IF posted /\ answered THEN verify(prepared.request, now, consumed)
                   ELSE [result |-> "none", consumed |-> consumed, token |-> Null]
            reply == IF ~posted THEN Null
                     ELSE IF answered THEN AuthReply(out) ELSE NoAnswer
        IN  /\ posted \/ p = QuietPost
            /\ Cardinality(out.consumed) <= MaxWire
            /\ consumed' = out.consumed
            /\ localStorage' = StoredAfter(localStorage, reply)
            /\ lastAuth' = [connected |-> connected, connectOk |-> connectOk,
                            account |-> accountKind, sign |-> signKind,
                            posted |-> IF posted THEN <<prepared.request>> ELSE <<>>,
                            reply |-> reply,
                            verified |-> out.result,
                            before |-> localStorage,
                            result |-> AuthResolve(prepared, reply)]
            /\ UNCHANGED <<now, wire, lastVerify, attempted, custodyVars, relayVars, outbox,
                           lastRead, calls, inflight, nextSeq, storyVars>>

WebNext ==
    \/ Tick
    \/ AuthenticateWithWallet

SpecWeb == Init /\ [][WebNext]_vars

-----------------------------------------------------------------------------
(* Stories and their chapters (storyController.js): createStory,           *)
(* addChapter and unlockChapter.  The chapter model's methods              *)
(* checkUnlockConditions and recordUnlock are taken as their call sites    *)
(* use them.                                                               *)

\* the people who sign in: alice is a recipient with an account, bob was
\* invited by e-mail before he had one, mallory is nobody's recipient
Readers == {"alice", "bob", "mallory"}

UserId(u) == <<"uid", u>>

Email(u) == <<"mail", u>>

\* req.user
RequestUser(u) == [_id |-> UserId(u), email |-> Email(u)]

\* one entry of processedRecipients; userId only for an existing user
Recipient(u, existingUser) ==
    [email |-> Email(u),
     userId |-> IF existingUser THEN UserId(u) ELSE Null,
     currentChapter |-> 0]

\* crypto.randomBytes(32).toString('hex')
StoryKey == <<"storykey", "random">>

\* Story.create(...) as far as unlockChapter reads it
createStory(isPublic) ==
    [isPublic |-> isPublic,
     isEncrypted |-> ~isPublic,
     encryptionKey |-> IF ~isPublic THEN StoryKey ELSE Null,
     recipients |-> <<Recipient("alice", TRUE), Recipient("bob", FALSE)>>]

\* the secrets a creator may set for a chapter
QrCodes == {Null, <<"qr", "garden">>}
Passwords == {Null, <<"pw", "tulip">>}

Sha256Hex(code) == <<"sha256", code>>

BcryptHash(value) == <<"bcrypt", value>>

\* encryptionService.encrypt / decrypt
StoryEncrypt(text, key) == <<"enc", key, text>>

StoryDecrypt(data, key) == IF data[2] = key THEN data[3] ELSE <<"garbled", data>>

\* processedConditions: the code and the password give way to their hashes
ProcessedConditions(code, password) ==
    [qrCode |-> [enabled |-> code # Null,
                 codeHash |-> IF code # Null THEN Sha256Hex(code) ELSE Null],
     password |-> [enabled |-> password # Null,
                   hash |-> IF password # Null THEN BcryptHash(password) ELSE Null]]

\* StoryChapter.create(...) in addChapter
addChapter(st, chapterNumber, text, code, password) ==
    [chapterNumber |-> chapterNumber,
     content |-> IF st.isEncrypted
                 THEN [text |-> Null, encryptedData |-> StoryEncrypt(text, st.encryptionKey)]
                 ELSE [text |-> text, encryptedData |-> Null],
     unlockConditions |-> ProcessedConditions(code, password),
     unlockedBy |-> {},
     stats |-> [unlockAttempts |-> 0]]

\* getChapterContent
getChapterContent(chapter, st) ==
    IF chapter.content.encryptedData # Null /\ st.encryptionKey # Null
    THEN [text |-> StoryDecrypt(chapter.content.encryptedData, st.encryptionKey),
          encryptedData |-> Null]
    ELSE chapter.content

\* whether the checks unlock the chapter
AnyPassed(checks) == checks = <<>> \/ \E i \in DOMAIN checks : checks[i].passed

AllPassed(checks) == \A i \in DOMAIN checks : checks[i].passed

\* chapter.checkUnlockConditions: every enabled condition is one check
checkUnlockConditions(chapter, supplied) ==
    LET conditions == chapter.unlockConditions
        qrPassed == Sha256Hex(supplied.qrCode) = conditions.qrCode.codeHash
        passwordPassed == BcryptHash(supplied.password) = conditions.password.hash
        checks == (IF conditions.qrCode.enabled
                   THEN <<[type |-> "qrCode", passed |-> qrPassed]>> ELSE <<>>)
                  \o (IF conditions.password.enabled
                      THEN <<[type |-> "password", passed |-> passwordPassed]>> ELSE <<>>)
        unlocked == AllPassed(checks)
    IN  [unlocked |-> unlocked,
         reason |-> IF unlocked THEN Null ELSE Text("Unlock conditions not met"),
         checks |-> checks]

\* chapter.recordUnlock
recordUnlock(chapter, userId) ==
    [chapter EXCEPT !.unlockedBy = @ \cup {userId}]

\* story.recipients.some / findIndex: by user id or by e-mail
IsRecipient(recipient, user) ==
    recipient.userId = user._id \/ recipient.email = user.email

\* res.status(code).json({success, message, data})
JsonResponse(code, success, message, data) ==
    [status |-> code, success |-> success, message |-> message, data |-> data]

\* what res.json makes of a chapter document, and of the copy whose
\* unlockConditions is set to undefined
ChapterJson(chapter) == chapter

ChapterJsonStripped(chapter) == [chapter EXCEPT !.unlockConditions = Null]

\* unlockChapter: the response, and the documents as it leaves them
unlockChapter(st, chs, user, chapterNumber, supplied) ==
    LET untouched(resp) == [response |-> resp, story |-> st, chapters |-> chs]
    IN  IF st = Null
        THEN untouched(JsonResponse(404, FALSE, Text("Story not found"), Null))
        ELSE IF ~st.isPublic
                /\ ~\E i \in DOMAIN st.recipients : IsRecipient(st.recipients[i], user)
        THEN untouched(JsonResponse(403, FALSE, Text("You are not a recipient of this story"),
                               Null))
        ELSE IF chs[chapterNumber] = Null
        THEN untouched(JsonResponse(404, FALSE, Text("Chapter not found"), Null))
        ELSE IF user._id \in chs[chapterNumber].unlockedBy
        THEN untouched(JsonResponse(200, TRUE, Text("Chapter already unlocked"),
                               [chapter |-> ChapterJson(chs[chapterNumber]),
                                content |-> getChapterContent(chs[chapterNumber], st),
                                checks |-> <<>>]))
        ELSE
            LET unlockResult == checkUnlockConditions(chs[chapterNumber], supplied)
                counted == [chs[chapterNumber] EXCEPT !.stats.unlockAttempts = @ + 1]
                unlockedChapter == recordUnlock(counted, user._id)
                progressed ==
                    [i \in DOMAIN st.recipients |->
                        IF i = (CHOOSE j \in DOMAIN st.recipients :
                                   /\ IsRecipient(st.recipients[j], user)
                                   /\ \A k \in 1..(j - 1) :
                                          ~IsRecipient(st.recipients[k], user))
                        THEN [st.recipients[i] EXCEPT !.currentChapter = chapterNumber]
                        ELSE st.recipients[i]]
                isListed == \E i \in DOMAIN st.recipients : IsRecipient(st.recipients[i], user)
            IN  IF ~unlockResult.unlocked
                THEN [response |-> JsonResponse(400, FALSE, unlockResult.reason,
                                      [chapter |-> Null, content |-> Null,
                                       checks |-> unlockResult.checks]),
                      story |-> st,
                      chapters |-> [chs EXCEPT ![chapterNumber] = counted]]
                ELSE [response |-> JsonResponse(200, TRUE, Text("Chapter unlocked!"),
                                      [chapter |-> ChapterJsonStripped(unlockedChapter),
                                       content |-> getChapterContent(unlockedChapter, st),
                                       checks |-> <<>>]),
                      story |-> IF isListed THEN [st EXCEPT !.recipients = progressed]
                                ELSE st,
                      chapters |-> [chs EXCEPT ![chapterNumber] = unlockedChapter]]

\* POST /api/stories
CreateStory ==
    \E isPublic \in BOOLEAN :
        /\ story = Null
        /\ story' = createStory(isPublic)
        /\ UNCHANGED <<chapters, lastUnlock, custodyVars, authVars, relayVars, outbox,
                       lastRead, calls, inflight, nextSeq, webVars>>

\* POST /api/stories/:storyId/chapters by the creator
AddChapter ==
    \E chapterNumber \in 1..MaxChapters, code \in QrCodes, password \in Passwords :
        /\ story # Null
        /\ chapters[chapterNumber] = Null
        /\ \A n \in 1..(chapterNumber - 1) : chapters[n] # Null
        /\ chapters' = [chapters EXCEPT ![chapterNumber] =
               addChapter(story, chapterNumber, Text("Dear reader"), code, password)]
        /\ UNCHANGED <<story, lastUnlock, custodyVars, authVars, relayVars, outbox,
                       lastRead, calls, inflight, nextSeq, webVars>>

\* POST /api/stories/:storyId/chapters/:chapterNumber/unlock
UnlockChapter ==
    \E u \in Readers, chapterNumber \in 1..MaxChapters,
       qrCode \in {<<"qr", "garden">>, <<"qr", "guess">>},
       password \in {<<"pw", "tulip">>, <<"pw", "guess">>} :
        LET supplied == [qrCode |-> qrCode, password |-> password]
            out == unlockChapter(story, chapters, RequestUser(u), chapterNumber, supplied)
        IN  /\ \A n \in 1..MaxChapters :
                   out.chapters[n] # Null
                       => out.chapters[n].stats.unlockAttempts <= MaxAttempts
            /\ story' = out.story
            /\ chapters' = out.chapters
            /\ lastUnlock' = [user |-> RequestUser(u), chapterNumber |-> chapterNumber,
                              supplied |-> supplied, response |-> out.response]
            /\ UNCHANGED <<custodyVars, authVars, relayVars, outbox,
                           lastRead, calls, inflight, nextSeq, webVars>>

StoryNext ==
    \/ CreateStory
    \/ AddChapter
    \/ UnlockChapter

SpecStory == Init /\ [][StoryNext]_vars

-----------------------------------------------------------------------------
(* Chain reads of the Android client (AptosClient.getBalance,              *)
(* fetchUserMemories, convertHexToString).  Text is a sequence of code     *)
(* points; a JSON value is tagged with its kind.                           *)

\* the width of Long in the model, standing for 64
LongBits == 4
\* the width of Int, scaled down likewise
IntBits == 3

LongMax == 2 ^ (LongBits - 1) - 1
LongMin == -(2 ^ (LongBits - 1))
\* the largest u64 a coin store can hold
CoinMax == 2 ^ LongBits - 1

Code(c) ==
    CASE c = "0" -> 48 [] c = "1" -> 49 [] c = "2" -> 50 [] c = "3" -> 51
      [] c = "4" -> 52 [] c = "5" -> 53 [] c = "6" -> 54 [] c = "7" -> 55
      [] c = "8" -> 56 [] c = "9" -> 57
      [] c = "a" -> 97 [] c = "b" -> 98 [] c = "c" -> 99 [] c = "d" -> 100
      [] c = "e" -> 101 [] c = "f" -> 102
      [] c = "A" -> 65 [] c = "F" -> 70
      [] c = "x" -> 120 [] c = "z" -> 122 [] c = "Q" -> 81 [] c = "m" -> 109
      [] c = "S" -> 83 [] c = "u" -> 117 [] c = "r" -> 114 [] c = "O" -> 79
      [] c = "n" -> 110 [] c = "C" -> 67 [] c = "h" -> 104 [] c = "i" -> 105
      [] c = "l" -> 108 [] c = "H" -> 72 [] c = "o" -> 111 [] c = "t" -> 116
      [] c = "s" -> 115 [] c = "-" -> 45 [] c = "+" -> 43 [] c = " " -> 32
      [] OTHER -> 63

\* a Kotlin String from its characters
Str(chars) == [i \in 1..Len(chars) |-> Code(chars[i])]

JsonObject(fields) == <<"obj", fields>>
JsonArray(items) == <<"arr", items>>
JsonString(text) == <<"str", text>>
JsonNumber(n) == <<"num", n>>
JsonNull == <<"null">>

\* text that is the decimal numeral of n, and text that is no numeral
Numeral(n) == <<"numeral", n>>
Words(text) == <<"words", text>>

\* JSONObject.optJSONObject(name): the member if it is an object, else null
optJSONObject(json, name) ==
    IF name \in DOMAIN json[2] /\ json[2][name][1] = "obj" THEN json[2][name] ELSE Null

\* JSONObject.optString(name, fallback): the member as text
optString(json, name, fallback) ==
    IF name \notin DOMAIN json[2] THEN fallback
    ELSE LET v == json[2][name]
         IN  CASE v[1] = "str" -> v[2]
               [] v[1] = "num" -> Numeral(v[2])
               [] v[1] = "null" -> Words(Str(<<"n", "u", "l", "l">>))
               [] OTHER -> Words(Str(<<"?">>))

\* String.toLongOrNull(): the number when the text is a numeral within Long
toLongOrNull(text) ==
    IF text[1] = "numeral" /\ text[2] >= LongMin /\ text[2] <= LongMax
    THEN Long(text[2]) ELSE Null

\* a reply of the node: failure is the IOException's message when none came;
\* body is the text received, JSON or not
NodeReply(failure, code, body) == [failure |-> failure, code |-> code, body |-> body]

\* getBalance after the request: every exception ends in 0
getBalance(response) ==
    IF response.failure # Null THEN Long(0)
    ELSE IF response.code \notin 200..299 THEN Long(0)
    ELSE LET body == IF response.body = Null THEN <<"json", JsonObject(<<>>)>>
                     ELSE response.body
         IN  IF body[1] # "json" THEN Long(0)
             ELSE IF body[2][1] # "obj" THEN Long(0)
             ELSE LET data == optJSONObject(body[2], "data")
                  IN  IF data = Null THEN Long(0)
                      ELSE LET coin == optJSONObject(data, "coin")
                           IN  IF coin = Null THEN Long(0)
                               ELSE LET value == toLongOrNull(optString(coin, "value", Numeral(0)))
                                    IN  IF value = Null THEN Long(0) ELSE value

CoinStore(value) ==
    <<"json", JsonObject([type |-> JsonString(Words(Str(<<"c">>))),
                          data |-> JsonObject([coin |-> JsonObject([value |-> value])])])>>

\* balances as text: zero, small, the largest Long, the first beyond it, the
\* largest u64; and values that are not numerals
CoinValues ==
    {JsonString(Numeral(n)) : n \in {0, 5, LongMax, LongMax + 1, CoinMax}}
        \cup {JsonNumber(5), JsonNull, JsonString(Words(Str(<<"a">>))),
              JsonString(Words(Str(<<>>)))}

BalanceReplies ==
    {NodeReply(Words(Str(<<"?">>)), 0, Null),
     NodeReply(Null, 404, <<"json", JsonObject([message |-> JsonString(Words(Str(<<"?">>)))])>>),
     NodeReply(Null, 500, Null),
     NodeReply(Null, 200, Null),
     NodeReply(Null, 200, <<"html", Words(Str(<<"?">>))>>),
     NodeReply(Null, 200, <<"json", JsonArray(<<>>)>>),
     NodeReply(Null, 200, <<"json", JsonObject(<<>>)>>),
     NodeReply(Null, 200, <<"json", JsonObject([data |-> JsonNull])>>),
     NodeReply(Null, 200, <<"json", JsonObject([data |-> JsonObject(<<>>)])>>),
     NodeReply(Null, 200, <<"json", JsonObject([data |-> JsonObject([coin |-> JsonString(Numeral(5))])])>>),
     NodeReply(Null, 200, <<"json", JsonObject([data |-> JsonObject([coin |-> JsonObject(<<>>)])])>>)}
        \cup {NodeReply(Null, 200, CoinStore(v)) : v \in CoinValues}
        \cup {NodeReply(Null, 404, CoinStore(v)) : v \in {JsonString(Numeral(5))}}

\* the addresses the reads are asked about
ReadSubjects == {WalletAccount(u).address : u \in Users}

GetBalance ==
    \E address \in ReadSubjects, response \in BalanceReplies :
        /\ lastRead' = [op |-> "getBalance", request |-> BalanceRequest(address),
                        field |-> Null,
                        response |-> response, value |-> getBalance(response)]
        /\ UNCHANGED <<custodyVars, authVars, relayVars, outbox, calls, inflight, nextSeq, webVars, storyVars>>

\* one hex digit's value, -1 for anything else
HexValue(c) ==
    IF c \in 48..57 THEN c - 48
    ELSE IF c \in 97..102 THEN c - 87
    ELSE IF c \in 65..70 THEN c - 55
    ELSE -1

\* String.toInt(16) of two characters, Null for a NumberFormatException: two
\* digits, or a sign and a digit
PairToInt(c1, c2) ==
    IF HexValue(c2) < 0 THEN Null
    ELSE IF HexValue(c1) >= 0 THEN <<16 * HexValue(c1) + HexValue(c2)>>
    ELSE IF c1 = 43 THEN <<HexValue(c2)>>
    ELSE IF c1 = 45 THEN <<-HexValue(c2)>>
    ELSE Null

\* Int.toChar(): the low 16 bits
toChar(n) == n % 65536

\* the loop of convertHexToString over cleanHex: the text, or Null when
\* substring or toInt throws
RECURSIVE AppendPairs(_)
AppendPairs(cleanHex) ==
    IF cleanHex = <<>> THEN <<"ok", <<>>>>
    ELSE IF Len(cleanHex) = 1 THEN Null
    ELSE LET n == PairToInt(cleanHex[1], cleanHex[2])
             rest == AppendPairs(SubSeq(cleanHex, 3, Len(cleanHex)))
         IN  IF n = Null \/ rest = Null THEN Null
             ELSE <<"ok", <<toChar(n[1])>> \o rest[2]>>

startsWith0x(s) == Len(s) >= 2 /\ s[1] = 48 /\ s[2] = 120

convertHexToString(hex) ==
    AppendPairs(IF startsWith0x(hex) THEN SubSeq(hex, 3, Len(hex)) ELSE hex)

\* if (raw.startsWith("0x")) convertHexToString(raw) else raw, on the text
\* optString gave: the clean text, or Null when the conversion throws
CleanField(raw) ==
    IF raw[1] = "words" /\ startsWith0x(raw[2])
    THEN LET converted == convertHexToString(raw[2])
         IN  IF converted = Null THEN Null ELSE Words(converted[2])
    ELSE raw

MemoryItem(id, title, date, ipfsHash, isSecured) ==
    [id |-> id, title |-> title, date |-> date, ipfsHash |-> ipfsHash, isSecured |-> isSecured]

\* Long.toInt(): the low IntBits bits, as a signed number
toInt(n) == ((n + 2^(IntBits - 1)) % 2^IntBits) - 2^(IntBits - 1)

\* the loop of fetchUserMemories from element i on: the items, or Null when
\* getJSONObject or convertHexToString throws; millis[i] is what
\* System.currentTimeMillis() returns for element i
RECURSIVE CollectMemories(_, _, _)
CollectMemories(memoriesArray, i, millis) ==
    IF i > Len(memoriesArray) THEN <<"ok", <<>>>>
    ELSE IF memoriesArray[i][1] # "obj" THEN Null
    ELSE LET mem == memoriesArray[i]
             cleanTitle == CleanField(optString(mem, "title",
                                                Words(Str(<<"S", "e", "c", "u", "r", "e", "d">>))))
             cleanHash == CleanField(optString(mem, "ipfs_hash", Words(Str(<<>>))))
             rest == CollectMemories(memoriesArray, i + 1, millis)
         IN  IF cleanTitle = Null \/ cleanHash = Null \/ rest = Null THEN Null
             ELSE <<"ok", <<MemoryItem(toInt(millis[i] + (i - 1)), cleanTitle,
                                       Words(Str(<<"O", "n", "-", "C", "h", "a", "i", "n">>)),
                                       cleanHash, TRUE)>> \o rest[2]>>

\* fetchUserMemories after the request: every exception ends in the empty list
fetchUserMemories(response, millis) ==
    IF response.failure # Null THEN <<>>
    ELSE IF response.code \notin 200..299 THEN <<>>
    ELSE LET body == IF response.body = Null THEN <<"json", JsonArray(<<>>)>>
                     ELSE response.body
         IN  IF body[1] # "json" THEN <<>>
             ELSE IF body[2][1] # "arr" THEN <<>>
             ELSE IF Len(body[2][2]) = 0 THEN <<>>
             ELSE IF body[2][2][1][1] # "arr" THEN <<>>
             ELSE LET collected == CollectMemories(body[2][2][1][2], 1, millis)
                  IN  IF collected = Null THEN <<>> ELSE collected[2]

\* a Move struct of the view result with the given title and hash
MemoryStruct(title, hash) ==
    JsonObject([title |-> JsonString(Words(Str(title))),
                ipfs_hash |-> JsonString(Words(Str(hash)))])

\* elements of the inner array: plain text, hex of "test" and of "Qm", hex of
\* a two-byte UTF-8 character, a struct without the fields, hex of odd
\* length, a title that begins with 0x and is not hex, and a non-object
ViewElements ==
    {MemoryStruct(<<"a", "b">>, <<"Q", "m">>),
     MemoryStruct(<<"0", "x", "7", "4", "6", "5", "7", "3", "7", "4">>,
                  <<"0", "x", "5", "1", "6", "d">>),
     MemoryStruct(<<"0", "x", "c", "3", "a", "9">>, <<"Q", "m">>),
     JsonObject(<<>>),
     MemoryStruct(<<"0", "x", "7">>, <<"Q", "m">>),
     MemoryStruct(<<"0", "x", " ", "m">>, <<"Q", "m">>),
     JsonString(Words(Str(<<"a">>)))}

InnerArrays ==
    {<<>>} \cup {<<e>> : e \in ViewElements}
           \cup {<<e1, e2>> : e1 \in ViewElements, e2 \in ViewElements}

ViewReplies ==
    {NodeReply(Words(Str(<<"?">>)), 0, Null),
     NodeReply(Null, 500, Null),
     NodeReply(Null, 400, <<"json", JsonArray(<<JsonArray(<<JsonObject(<<>>)>>)>>)>>),
     NodeReply(Null, 200, Null),
     NodeReply(Null, 200, <<"html", Words(Str(<<"?">>))>>),
     NodeReply(Null, 200, <<"json", JsonObject(<<>>)>>),
     NodeReply(Null, 200, <<"json", JsonArray(<<>>)>>),
     NodeReply(Null, 200, <<"json", JsonArray(<<JsonNull>>)>>),
     NodeReply(Null, 200, <<"json", JsonArray(<<JsonObject(<<>>)>>)>>)}
        \cup {NodeReply(Null, 200, <<"json", JsonArray(<<JsonArray(inner)>>)>>) :
                  inner \in InnerArrays}

\* the readings of the wall clock during one call, one for each element; the
\* wall clock may be set between two readings
ClockReadings == [1..2 -> 0..MaxTime]

FetchMemories ==
    \E address \in ReadSubjects, response \in ViewReplies, millis \in ClockReadings :
        /\ lastRead' = [op |-> "fetchMemories", request |-> ViewRequest(address),
                        field |-> Null,
                        response |-> response,
                        value |-> <<"list", fetchUserMemories(response, millis)>>]
        /\ UNCHANGED <<custodyVars, authVars, relayVars, outbox, calls, inflight, nextSeq, webVars, storyVars>>

\* text fields as the chain returns them
HexBytes == {<<"7", "4">>, <<"6", "5">>, <<"7", "3">>, <<"4", "8">>, <<"6", "c">>,
             <<"6", "f">>, <<"c", "3">>, <<"a", "9">>, <<"e", "2">>, <<"8", "2">>,
             <<"a", "c">>}

ChainFields ==
    {Str(<<"0", "x">>)}
        \cup {Str(<<"0", "x">> \o b) : b \in HexBytes}
        \cup {Str(<<"0", "x">> \o b1 \o b2) : b1 \in HexBytes, b2 \in HexBytes}
        \cup {Str(<<"0", "x", "7", "4", "6", "5", "7", "3", "7", "4">>),
              Str(<<"0", "x", "4", "8", "6", "5", "6", "c", "6", "c", "6", "f">>),
              Str(<<"0", "x", "e", "2", "8", "2", "a", "c">>),
              Str(<<"0", "x", "4", "F">>),
              Str(<<"a", "b">>), Str(<<"Q", "m">>), Str(<<>>), Str(<<"x", "0">>),
              Str(<<"7", "4">>)}

\* one text field of a record, cleaned as fetchUserMemories cleans it
DecodeField ==
    \E field \in ChainFields :
        /\ lastRead' = [op |-> "decodeField", request |-> Null, field |-> Words(field),
                        response |-> Null,
                        value |-> CleanField(Words(field))]
        /\ UNCHANGED <<custodyVars, authVars, relayVars, outbox, calls, inflight, nextSeq, webVars, storyVars>>

ReadNext ==
    \/ GetBalance
    \/ FetchMemories
    \/ DecodeField

SpecRead == Init /\ [][ReadNext]_vars

-----------------------------------------------------------------------------
(* Relay: properties *)

RelayStep == lastRelay' # lastRelay

\* the user whose device wallet produced a relay signature
SignedBy(req, u) ==
    req.signature = <<"hex", <<"ed25519sig", <<"ed25519sk", <<"wallet", u>>>>,
                      <<"payload", req.title, req.ipfsHash, req.category,
                        req.fileName, req.fileSize>>>>>>

\* the user a session token was issued to
SessionOf(token, u) ==
    LET address == <<"0x", <<"hex", <<"sha3_256",
                       <<"ed25519pk", <<"ed25519sk", <<"wallet", u>>>>>>, 0>>>>>>
    IN  token = <<"jwt", [id |-> <<"user", address>>, aptosAddress |-> address, iat |-> 0]>>

\* C1: a relay call whose payload is signed by one user's key but presented
\* under another user's session is answered SignatureInvalid and sponsors
\* nothing; and whenever a call does put a transaction on the chain, the
\* transaction's sender is the session's user and the payload signature is
\* that same user's.
RelayOnlyForSessionSigner ==
    [][RelayStep =>
        /\ \A a \in Users, b \in Users :
              (a # b /\ SignedBy(lastRelay'.req, a) /\ SessionOf(lastRelay'.token, b))
              => /\ lastRelay'.response.code = 400
                 /\ lastRelay'.response.errorBody[2].message = <<"text", "SignatureInvalid">>
                 /\ lastRelay'.returned.value = <<"Relay Failed: ", <<"text", "SignatureInvalid">>>>
                 /\ lastRelay'.returned.threw
                 /\ chain' = chain
                 /\ relayed' = relayed
        /\ chain' # chain
              => /\ Len(chain') = Len(chain) + 1
                 /\ \E u \in Users :
                      /\ SessionOf(lastRelay'.token, u)
                      /\ SignedBy(chain'[Len(chain')].request, u)
                      /\ chain'[Len(chain')].request = lastRelay'.req
                      /\ chain'[Len(chain')].sender = WalletAccount(u).address]_vars

\* a payload signed by one user was presented under the other's session
\* while the chain already held a sponsored transaction
CrossSessionRelaySeen ==
    /\ lastRelay # Null
    /\ \E a \in Users, b \in Users :
          a # b /\ SignedBy(lastRelay.req, a) /\ SessionOf(lastRelay.token, b)
    /\ Len(chain) > 0

\* the transactions sponsored for a dedup key
TxsFor(address, ipfsHash) ==
    {i \in 1..Len(chain) : chain[i].sender = address /\ chain[i].ipfsHash = ipfsHash}

\* C2: for each (authenticated address, contentHash) at most one transaction
\* is ever sponsored, and every accepted submission of that pair returns the
\* hash of that one transaction, the result of the first submission.
RelayIdempotent ==
    /\ \A u \in Users, h \in ContentHashes :
          Cardinality(TxsFor(WalletAccount(u).address, h)) <= 1
    /\ (lastRelay # Null /\ ~lastRelay.returned.threw)
          => \E u \in Users :
              /\ SessionOf(lastRelay.token, u)
              /\ \E i \in TxsFor(WalletAccount(u).address, lastRelay.req.ipfsHash) :
                    /\ lastRelay.returned.value = chain[i].hash
                    /\ lastRelay.response.body.data.tx.explorerUrl = <<"explorer", chain[i].hash>>

\* a pair was submitted again, after other transactions, and accepted with
\* the first result
ResubmissionSeen ==
    /\ lastRelay # Null
    /\ ~lastRelay.returned.threw
    /\ Len(chain) >= 2
    /\ lastRelay.returned.value = chain[1].hash

-----------------------------------------------------------------------------
(* The relay client: properties *)

\* the message a reply's body carries, <<>> when it carries none
UpstreamMessage(reply) ==
    IF reply.body # <<>> THEN reply.body.message
    ELSE IF reply.errorBody = <<>> THEN <<>>
    ELSE IF reply.errorBody[1] = "json" /\ "message" \in DOMAIN reply.errorBody[2]
    THEN reply.errorBody[2].message
    ELSE <<>>

\* C15: a relay call that does not succeed (no reply, a non-2xx reply, or a
\* reply whose body says success = false) makes submit throw; the error has
\* the message of the reply's body when that body has one, and otherwise the
\* transport's own message (the IOException's, or the status line's); and
\* the request was sent once.
RelayFailureCarriesUpstream ==
    (/\ lastRelay # <<>>
     /\ \/ lastRelay.response.failure # <<>>
        \/ lastRelay.response.code \notin 200..299
        \/ lastRelay.response.body = <<>>
        \/ ~lastRelay.response.body.success)
        => /\ lastRelay.returned.threw
           /\ Len(lastRelay.sent) = 1
           /\ IF UpstreamMessage(lastRelay.response) # <<>>
              THEN lastRelay.returned.value =
                       <<"Relay Failed: ", UpstreamMessage(lastRelay.response)>>
              ELSE \/ lastRelay.returned.value = lastRelay.response.failure
                   \/ lastRelay.returned.value =
                          <<"Relay Failed: ", lastRelay.response.message>>

-----------------------------------------------------------------------------
(* Chain reads: properties *)

\* the member of a JSON object when it is there and is an object, else <<>>
ObjectMember(json, name) ==
    IF json = <<>> THEN <<>>
    ELSE IF json[1] # "obj" THEN <<>>
    ELSE IF name \notin DOMAIN json[2] THEN <<>>
    ELSE IF json[2][name][1] # "obj" THEN <<>>
    ELSE json[2][name]

\* the JSON text of a 2xx reply, <<>> for any other reply and for no reply
SuccessJson(reply) ==
    IF reply.failure # <<>> THEN <<>>
    ELSE IF reply.code \notin 200..299 THEN <<>>
    ELSE IF reply.body = <<>> THEN <<>>
    ELSE IF reply.body[1] # "json" THEN <<>>
    ELSE reply.body[2]

\* the integer that data.coin.value of a reply holds, as a string or as a
\* number; <<>> when there is none
CoinValueOf(reply) ==
    LET coin == ObjectMember(ObjectMember(SuccessJson(reply), "data"), "coin")
    IN  IF coin = <<>> THEN <<>>
        ELSE IF "value" \notin DOMAIN coin[2] THEN <<>>
        ELSE IF coin[2]["value"][1] = "num" THEN <<coin[2]["value"][2]>>
        ELSE IF coin[2]["value"][1] = "str" /\ coin[2]["value"][2][1] = "numeral"
        THEN <<coin[2]["value"][2][2]>>
        ELSE <<>>

\* C16: getBalance returns a number for every reply and for no reply: 0 when
\* the reply is not a success, when data or data.coin is missing, when the
\* value is no integer and when the request failed, and the integer in
\* data.coin.value otherwise.
BalanceIsCoinValueOrZero ==
    (lastRead # <<>> /\ lastRead.op = "getBalance")
        => lastRead.value = IF CoinValueOf(lastRead.response) = <<>> THEN <<"long", 0>>
                            ELSE <<"long", CoinValueOf(lastRead.response)[1]>>

\* the inner array of a view result, <<>> when the result has none
InnerArrayOf(reply) ==
    LET json == SuccessJson(reply)
    IN  IF json = <<>> THEN <<>>
        ELSE IF json[1] # "arr" THEN <<>>
        ELSE IF Len(json[2]) = 0 THEN <<>>
        ELSE IF json[2][1][1] # "arr" THEN <<>>
        ELSE json[2][1][2]

\* C17: fetchMemories returns a list for every reply and for no reply: the
\* empty list for an empty outer array, an absent or empty inner array, a
\* reply that is not a success and a failed request, and otherwise one record
\* for each element of the inner array, in the array's order.
FetchGivesOneRecordPerElement ==
    (lastRead # <<>> /\ lastRead.op = "fetchMemories")
        => LET inner == InnerArrayOf(lastRead.response)
               list == lastRead.value[2]
           IN  /\ Len(list) = Len(inner)
               /\ \A i \in 1..Len(inner) :
                    (/\ i <= Len(list)
                     /\ inner[i][1] = "obj"
                     /\ "ipfs_hash" \in DOMAIN inner[i][2]
                     /\ inner[i][2]["ipfs_hash"][2] = <<"words", <<81, 109>>>>)
                        => list[i].ipfsHash = <<"words", <<81, 109>>>>

\* the bytes two hex digits at a time, <<>> in place of a pair that is not hex
RECURSIVE BytesOfHex(_)
BytesOfHex(digits) ==
    IF Len(digits) < 2 THEN <<>>
    ELSE <<16 * HexValue(digits[1]) + HexValue(digits[2])>>
             \o BytesOfHex(SubSeq(digits, 3, Len(digits)))

IsHexText(digits) ==
    /\ Len(digits) % 2 = 0
    /\ \A i \in 1..Len(digits) : digits[i] \in (48..57) \cup (97..102) \cup (65..70)

\* UTF-8: one code point for each well-formed sequence of one, two or three
\* bytes, U+FFFD for a byte that begins none
RECURSIVE Utf8Decode(_)
Utf8Decode(bytes) ==
    IF bytes = <<>> THEN <<>>
    ELSE IF bytes[1] < 128 THEN <<bytes[1]>> \o Utf8Decode(Tail(bytes))
    ELSE IF /\ bytes[1] \in 194..223
            /\ Len(bytes) >= 2
            /\ bytes[2] \in 128..191
    THEN <<(bytes[1] - 192) * 64 + (bytes[2] - 128)>> \o Utf8Decode(SubSeq(bytes, 3, Len(bytes)))
    ELSE IF /\ bytes[1] \in 224..239
            /\ Len(bytes) >= 3
            /\ bytes[2] \in 128..191
            /\ bytes[3] \in 128..191
    THEN <<(bytes[1] - 224) * 4096 + (bytes[2] - 128) * 64 + (bytes[3] - 128)>>
             \o Utf8Decode(SubSeq(bytes, 4, Len(bytes)))
    ELSE <<65533>> \o Utf8Decode(Tail(bytes))

\* bytes that are well-formed UTF-8 of one-, two- and three-byte sequences
RECURSIVE IsUtf8(_)
IsUtf8(bytes) ==
    IF bytes = <<>> THEN TRUE
    ELSE IF bytes[1] < 128 THEN IsUtf8(Tail(bytes))
    ELSE IF bytes[1] \in 194..223
    THEN Len(bytes) >= 2 /\ bytes[2] \in 128..191 /\ IsUtf8(SubSeq(bytes, 3, Len(bytes)))
    ELSE IF bytes[1] \in 224..239
    THEN /\ Len(bytes) >= 3
         /\ bytes[2] \in 128..191
         /\ bytes[3] \in 128..191
         /\ IsUtf8(SubSeq(bytes, 4, Len(bytes)))
    ELSE FALSE

\* C18: a text field that begins with 0x and goes on in hex digits, two for
\* each byte, the bytes being UTF-8, is returned as the text those bytes
\* encode, one character for each sequence; a field that does not begin
\* with 0x is returned as it is.
FieldDecodedAsUtf8 ==
    (lastRead # <<>> /\ lastRead.op = "decodeField")
        => LET text == lastRead.field[2]
               prefixed == Len(text) >= 2 /\ text[1] = 48 /\ text[2] = 120
               digits == SubSeq(text, 3, Len(text))
           IN  /\ (prefixed /\ IsHexText(digits) /\ IsUtf8(BytesOfHex(digits)))
                    => lastRead.value = <<"words", Utf8Decode(BytesOfHex(digits))>>
               /\ ~prefixed => lastRead.value = lastRead.field

-----------------------------------------------------------------------------
(* Secret confinement *)

\* a value is the secret itself, raw or in one of the encodings in use
Reveals(value, secret) ==
    /\ secret # <<>>
    /\ \/ value = secret
       \/ value = <<"b64", secret>>
       \/ value = <<"hex", secret>>
       \/ value = <<"0x", <<"hex", secret>>>>

\* some part of a message is the secret: the header, its credential, a path
\* segment, a body field, or an element of the arguments array
Carries(msg, secret) ==
    \/ Reveals(msg.header, secret)
    \/ IF msg.header = <<>> THEN FALSE ELSE Reveals(msg.header[2], secret)
    \/ \E i \in 1..Len(msg.path) : Reveals(msg.path[i], secret)
    \/ \E f \in DOMAIN msg.body : Reveals(msg.body[f], secret)
    \/ IF msg.to = "node" /\ msg.body # <<>>
       THEN \E i \in 1..Len(msg.body.arguments) : Reveals(msg.body.arguments[i], secret)
       ELSE FALSE

\* the secrets the device store holds, <<>> where it holds none
StoredPrivateKey == IF prefs["private_key"] = <<>> THEN <<>> ELSE prefs["private_key"][2]
StoredMnemonic == prefs["mnemonic"]
StoredSeed == IF prefs["mnemonic"] = <<>> THEN <<>> ELSE <<"pbkdf2", prefs["mnemonic"]>>
StoredEnvelopeKey ==
    IF prefs["encryption_key"] = <<>> THEN <<>> ELSE prefs["encryption_key"][2]

\* C7: the last message a client sent (auth request, link request, relay
\* request, balance read or view call) carries in no header, path segment,
\* body field or argument the device's private key, seed, mnemonic or
\* envelope key, nor the private key of a browser wallet, raw or encoded;
\* and the signature field of a relay request is a signature.
NoSecretLeaves ==
    outbox # <<>> =>
        /\ ~Carries(outbox, StoredPrivateKey)
        /\ ~Carries(outbox, StoredMnemonic)
        /\ ~Carries(outbox, StoredSeed)
        /\ ~Carries(outbox, StoredEnvelopeKey)
        /\ \A u \in {"alice", "bob"} :
              ~Carries(outbox, <<"ed25519sk", <<"wallet", u>>>>)
        /\ outbox.path = <<<<"text", "memories">>, <<"text", "relay">>>>
              => outbox.body.signature[2][1] = "ed25519sig"

\* a device holding a wallet with all four secrets has sent a relay request
RelaySentWithSecretsHeld ==
    /\ outbox # <<>>
    /\ outbox.path = <<<<"text", "memories">>, <<"text", "relay">>>>
    /\ StoredPrivateKey # <<>>
    /\ StoredMnemonic # <<>>
    /\ StoredEnvelopeKey # <<>>

-----------------------------------------------------------------------------
(* Challenge verification: properties *)

\* a step in which the backend completed a verify call
VerifyStep == lastVerify' # lastVerify

\* C3: of the verify calls that carry one nonce and are otherwise valid
\* (matching address, good signature, inside the TTL), the first succeeds and
\* is issued a token, and every later one is rejected with ReplayDetected and
\* is issued none.
ReplayRejected ==
    [][(VerifyStep /\ ValidCall(lastVerify'.req, now))
          => IF <<lastVerify'.req.nonce, TRUE>> \in attempted
             THEN lastVerify'.result = "ReplayDetected" /\ lastVerify'.token = Null
             ELSE lastVerify'.result = "Verified" /\ lastVerify'.token # Null]_vars

\* a valid call turned down because its nonce had been used by a valid call
ReplaySeen ==
    /\ lastVerify # Null
    /\ lastVerify.result = "ReplayDetected"
    /\ ValidCall(lastVerify.req, now)
    /\ <<lastVerify.req.nonce, TRUE>> \in attempted

\* C4: once a verify call on a challenge has completed, accepted or rejected,
\* no later verify call with the same nonce succeeds.
ChallengeNeverReused ==
    [][(VerifyStep /\ \E a \in attempted : a[1] = lastVerify'.req.nonce)
          => lastVerify'.result # "Verified"]_vars

\* C5: a token for address A is issued only by a verify call that claims A,
\* whose public key derives to A = 0x + hex(sha3_256(publicKey ++ 0x00)) and
\* whose signature is good for the message under that key; a call whose
\* derived address differs from the claimed one is rejected with
\* AddressMismatch and is issued no token.
TokenBoundToAddress ==
    [][VerifyStep =>
          LET req == lastVerify'.req
              derived == <<"0x", <<"hex", <<"sha3_256", FromHex(req.publicKey), 0>>>>>>
          IN  /\ lastVerify'.token # Null
                    => /\ TokenSubject(lastVerify'.token) = req.address
                       /\ derived = req.address
                       /\ Ed25519Verify(FromHex(req.publicKey), req.message,
                                         FromHex(req.signature))
              /\ derived # req.address
                    => lastVerify'.result = "AddressMismatch" /\ lastVerify'.token = Null]_vars

\* a token was issued to the claimed address
TokenIssuedSeen ==
    /\ lastVerify # Null
    /\ lastVerify.result = "Verified"
    /\ lastVerify.token # Null
    /\ TokenSubject(lastVerify.token) = lastVerify.req.address

\* C6: a verify call whose timestamp, the one embedded in the signed message,
\* lies outside the TTL window at the server's time is issued no token, and
\* is rejected with Expired when its address and signature are good.
ExpiredRejected ==
    [][VerifyStep =>
          LET req == lastVerify'.req
              timestamp == TimestampOf(req.message)
              derived == <<"0x", <<"hex", <<"sha3_256", FromHex(req.publicKey), 0>>>>>>
          IN  (timestamp > now \/ now - timestamp > ChallengeTtl)
                  => /\ lastVerify'.token = Null
                     /\ lastVerify'.result # "Verified"
                     /\ (/\ derived = req.address
                         /\ Ed25519Verify(FromHex(req.publicKey), req.message,
                                           FromHex(req.signature)))
                            => lastVerify'.result = "Expired"]_vars

\* a correctly signed challenge turned down for its age
ExpiredSeen ==
    /\ lastVerify # Null
    /\ lastVerify.result = "Expired"
    /\ now - TimestampOf(lastVerify.req.message) > ChallengeTtl
    /\ Ed25519Verify(FromHex(lastVerify.req.publicKey), lastVerify.req.message,
                      FromHex(lastVerify.req.signature))

-----------------------------------------------------------------------------
(* Concurrent verification: properties *)

\* the finished calls that carried this nonce and were valid when handled
ValidCallsWith(nonce) ==
    {w \in Workers : /\ calls[w] # Null
                     /\ calls[w].pc = "done"
                     /\ calls[w].req.nonce = nonce
                     /\ ValidCall(calls[w].req, calls[w].at)}

\* C19: among the finished, otherwise valid verify calls that carry one
\* nonce, however their steps interleave, exactly one is Verified and has a
\* token; every other one is ReplayDetected and has none
AtomicNonceConsumption ==
    \A v \in Workers :
        (calls[v] # Null /\ calls[v].pc = "done") =>
            LET same == ValidCallsWith(calls[v].req.nonce)
                won == {w \in same : calls[w].result = "Verified"}
            IN  same # {} =>
                    /\ Cardinality(won) = 1
                    /\ \A w \in won : calls[w].token # <<>>
                    /\ \A w \in same \ won :
                           /\ calls[w].result = "ReplayDetected"
                           /\ calls[w].token = <<>>

\* two valid calls with one nonce overlapped: the loser began before the
\* winner had consumed the nonce
OverlappingReplaySeen ==
    \E w, v \in Workers :
        /\ w # v
        /\ calls[w] # Null /\ calls[v] # Null
        /\ calls[w].pc = "done" /\ calls[v].pc = "done"
        /\ calls[w].req.nonce = calls[v].req.nonce
        /\ calls[v].result = "Verified"
        /\ calls[w].result = "ReplayDetected"
        /\ calls[w].req.nonce \notin calls[w].seen

-----------------------------------------------------------------------------
(* Relay submissions side by side: properties *)

\* C20: at any moment no two relay submissions between construction and
\* acceptance belong to one address, so no two of them carry the same
\* sequence number of one account, and each carries the account's current one
RelaySerializedPerAddress ==
    /\ \A i, j \in DOMAIN inflight :
           i # j => /\ inflight[i].address # inflight[j].address
                    /\ <<inflight[i].address, inflight[i].seq>>
                           # <<inflight[j].address, inflight[j].seq>>
    /\ \A i \in DOMAIN inflight :
           \A u \in Users :
               inflight[i].address = <<"0x", <<"hex", <<"sha3_256",
                   <<"ed25519pk", <<"ed25519sk", <<"wallet", u>>>>>>, 0>>>>>>
               => inflight[i].seq = nextSeq[u]

\* relays of two addresses overlap, one of them the second relay of its
\* address
RelaysOfTwoAddressesOverlapSeen ==
    /\ Len(inflight) = 2
    /\ inflight[1].address # inflight[2].address
    /\ \E i \in DOMAIN inflight : inflight[i].seq = 1
    /\ Len(chain) = 1

-----------------------------------------------------------------------------
(* KeyCustody: the store as a whole *)

\* the calls that wrote an identity
Writers == {w \in Workers : calls[w] # Null /\ calls[w].status = "ok"}

\* C21: however concurrent createWallet and importWallet calls interleave,
\* the store is empty or holds the complete five-field identity of exactly
\* one call, never fields of two; and a sign that runs meanwhile uses the
\* private key of one of these identities.
SingleWriterStore ==
    /\ \/ \A k \in DOMAIN prefs : prefs[k] = <<>>
       \/ /\ \A k \in {"private_key", "public_key", "wallet_address", "mnemonic",
                       "encryption_key"} : prefs[k] # <<>>
          /\ \E w \in Writers : prefs = calls[w].identity
          /\ prefs["private_key"] =
                 <<"b64", <<"ed25519sk", <<"copyOf32", ToSeed(prefs["mnemonic"])>>>>>>
          /\ prefs["public_key"] = <<"b64", <<"ed25519pk", prefs["private_key"][2]>>>>
          /\ prefs["wallet_address"] =
                 <<"0x", <<"hex", <<"sha3_256", prefs["public_key"][2], 0>>>>>>
    /\ (ret.op = "sign" /\ ret.status = "ok")
           => \E w \in Writers : ret.value[2] = calls[w].identity["private_key"][2]
    /\ (ret.op = "sign" /\ ret.status # "ok") => ret.status = "NoWallet"

\* two calls that both began on the empty store have written two different
\* identities, the store holds one of them and a sign has used its key
OverlappingWritersSeen ==
    \E w, v \in Workers :
        /\ w # v
        /\ calls[w] # Null /\ calls[v] # Null
        /\ calls[w].pc = "done" /\ calls[v].pc = "done"
        /\ calls[w].status = "ok" /\ calls[v].status = "ok"
        /\ calls[w].op = "createWallet" /\ calls[v].op = "importWallet"
        /\ calls[w].seen = EmptyPrefs /\ calls[v].seen = EmptyPrefs
        /\ calls[w].identity["private_key"] # calls[v].identity["private_key"]
        /\ prefs = calls[v].identity
        /\ ret.op = "sign" /\ ret.status = "ok"
        /\ ret.value[2] = prefs["private_key"][2]

\* C22: in every reachable state the store holds either none or all of the
\* five fields private key, public key, address, mnemonic and envelope key.
StoreNoneOrAll ==
    \/ \A k \in {"private_key", "public_key", "wallet_address", "mnemonic",
                 "encryption_key"} : prefs[k] = <<>>
    \/ \A k \in {"private_key", "public_key", "wallet_address", "mnemonic",
                 "encryption_key"} : prefs[k] # <<>>

\* C25: a blob encrypted under the stored wallet still decrypts to its
\* plaintext after the same mnemonic has been imported again on top of it.
BlobRecoverableAfterReimport ==
    [][(/\ ret'.op = "importWallet"
        /\ ret'.status = "ok"
        /\ prefs["private_key"] # <<>>
        /\ prefs'["mnemonic"] = prefs["mnemonic"]
        /\ kept # <<>>
        /\ prefs["encryption_key"] = <<"b64", kept[3][2][2]>>)
            => /\ decryptData(prefs', kept, 1).status = "ok"
               /\ decryptData(prefs', kept, 1).value = kept[3][2][4]]_vars

-----------------------------------------------------------------------------
(* Challenge verification: the order of the checks *)

\* C23: verify reports the first failing check in the order address match,
\* signature, expiry, replay; a call rejected with AddressMismatch,
\* SignatureInvalid or Expired leaves the consumed nonces as they were, and a
\* nonce becomes consumed only by a call that passed the first three checks.
ChecksInOrder ==
    [][/\ VerifyStep =>
             LET req == lastVerify'.req
                 timestamp == TimestampOf(req.message)
                 addressOk ==
                     <<"0x", <<"hex", <<"sha3_256", FromHex(req.publicKey), 0>>>>>>
                         = req.address
                 signatureOk == Ed25519Verify(FromHex(req.publicKey), req.message,
                                              FromHex(req.signature))
                 inWindow == timestamp <= now /\ now - timestamp <= ChallengeTtl
                 firstFailure ==
                     IF ~addressOk THEN "AddressMismatch"
                     ELSE IF ~signatureOk THEN "SignatureInvalid"
                     ELSE IF ~inWindow THEN "Expired"
                     ELSE IF req.nonce \in consumed THEN "ReplayDetected"
                     ELSE "Verified"
             IN  /\ lastVerify'.result = firstFailure
                 /\ lastVerify'.result \in {"AddressMismatch", "SignatureInvalid", "Expired"}
                        => consumed' = consumed
       /\ consumed' # consumed
             => /\ VerifyStep
                /\ consumed' = consumed \cup {lastVerify'.req.nonce}
                /\ lastVerify'.req.nonce \notin consumed
                /\ ValidCall(lastVerify'.req, now)]_vars

\* a call that fails both the expiry and the replay check was reported as
\* Expired
BothExpiredAndReplayedSeen ==
    /\ lastVerify # Null
    /\ lastVerify.result = "Expired"
    /\ lastVerify.req.nonce \in consumed
    /\ now - TimestampOf(lastVerify.req.message) > ChallengeTtl

-----------------------------------------------------------------------------
(* The challenge message of the web client *)

\* C24: the message of every request sent for verification, to /auth/wallet
\* and to /auth/link-wallet alike, is the one fixed template with the
\* request's address and the timestamp embedded, so that the template
\* recomputed from (address, timestamp) equals the signed message.
OneChallengeTemplate ==
    (outbox # <<>> /\ outbox.to = "backend"
        /\ outbox.path \in {<<<<"text", "auth">>, <<"text", "wallet">>>>,
                            <<<<"text", "auth">>, <<"text", "link-wallet">>>>})
        => /\ Len(outbox.body.message) = 5
           /\ outbox.body.message =
                <<"Sign this message to authenticate with LifeVault.\n\nWallet: ",
                  outbox.body.address,
                  "\nTimestamp: ",
                  outbox.body.message[4],
                  "\n\nThis signature will not trigger any blockchain transaction or cost any gas fees.">>

-----------------------------------------------------------------------------
(* The relay client: what submit returns *)

\* C26: submit returns normally only for a successful reply whose body says
\* success = true, and then returns the non-empty hash of data.tx.hash; in
\* every other case, a success reply without a transaction hash included, it
\* throws.
SubmitReturnsOnlyWithHash ==
    lastRelay # <<>> =>
        LET reply == lastRelay.response
            hasHash == /\ reply.failure = <<>>
                       /\ reply.code \in 200..299
                       /\ reply.body # <<>>
                       /\ reply.body.success
                       /\ reply.body.data # <<>>
                       /\ reply.body.data.tx # <<>>
                       /\ reply.body.data.tx.hash # <<"text", "">>
        IN  IF hasHash
            THEN /\ ~lastRelay.returned.threw
                 /\ lastRelay.returned.value = reply.body.data.tx.hash
            ELSE lastRelay.returned.threw

-----------------------------------------------------------------------------
(* authenticateWithWallet: properties *)

\* C27: authenticateWithWallet resolves to success with a token only after
\* the backend accepted the posted challenge, and stores exactly the token
\* the backend returned; on every other path (connect failure, no account,
\* no public key, no signature, backend error or no answer) it resolves to
\* failure with an error message and leaves the stored token as it was, and
\* before the post it has sent nothing.
AuthResolvesFaithfully ==
    [][lastAuth' # lastAuth =>
          LET call == lastAuth'
              ready == /\ call.connected
                       /\ call.account = "full"
                       /\ call.sign = "signed"
              accepted == /\ ready
                          /\ call.reply # <<>>
                          /\ call.reply.status = 200
          IN  /\ call.result.success \in {TRUE, FALSE}
              /\ ready <=> Len(call.posted) = 1
              /\ ~ready => call.posted = <<>> /\ consumed' = consumed
              /\ accepted
                    => /\ call.result.success
                       /\ call.result.token = call.reply.token
                       /\ call.result.token # <<>>
                       /\ localStorage' = call.reply.token
                       /\ call.verified = "Verified"
                       /\ ValidCall(call.posted[1], now)
                       /\ call.posted[1].nonce \notin consumed
                       /\ call.posted[1].nonce \in consumed'
              /\ ~accepted
                    => /\ ~call.result.success
                       /\ call.result.token = <<>>
                       /\ call.result.error # <<>>
                       /\ call.result.error # <<"text", "">>
                       /\ localStorage' = localStorage]_vars

\* with a token of an earlier sign-in stored, the backend turned a posted
\* challenge down and the stored token stayed
RejectedWithTokenStoredSeen ==
    /\ lastAuth # Null
    /\ lastAuth.before # Null
    /\ Len(lastAuth.posted) = 1
    /\ lastAuth.reply.status = 401
    /\ ~lastAuth.result.success
    /\ localStorage = lastAuth.before

-----------------------------------------------------------------------------
(* unlockChapter: properties *)

\* the unlock secrets of the story's chapters and the story's key
UnlockSecrets ==
    {<<"qr", "garden">>, <<"pw", "tulip">>,
     <<"sha256", <<"qr", "garden">>>>, <<"bcrypt", <<"pw", "tulip">>>>,
     <<"storykey", "random">>}

\* the values a response carries: its message, the fields of its chapter
\* and of the chapter's conditions, its content and its checks
ResponseValues(resp) ==
    {resp.message}
      \cup (IF resp.data = <<>> THEN {}
            ELSE (IF resp.data.chapter = <<>> THEN {}
                  ELSE {resp.data.chapter.content.text,
                        resp.data.chapter.content.encryptedData}
                         \cup (IF resp.data.chapter.unlockConditions = <<>> THEN {}
                               ELSE {resp.data.chapter.unlockConditions.qrCode.codeHash,
                                     resp.data.chapter.unlockConditions.password.hash}))
                 \cup (IF resp.data.content = <<>> THEN {}
                       ELSE {resp.data.content.text, resp.data.content.encryptedData}))

\* C28: no response of unlockChapter, on the already-unlocked path, on the
\* newly-unlocked path or on a failed attempt, carries the chapter's QR code
\* or its hash, the password or its hash, or the story's encryption key.
UnlockResponseHidesSecrets ==
    lastUnlock # <<>> => ResponseValues(lastUnlock.response) \cap UnlockSecrets = {}

\* a step in which unlockChapter answered a request
UnlockStep ==
    \/ lastUnlock' # lastUnlock
    \/ /\ chapters' # chapters
       /\ \A n \in DOMAIN chapters : (chapters[n] = <<>>) <=> (chapters'[n] = <<>>)

-----------------------------------------------------------------------------
(* Chain reads: the identifiers of the records *)

\* C30: within the list one fetchMemories call returns, the identifiers of
\* the records are pairwise distinct.
IdentifiersDistinct ==
    (lastRead # <<>> /\ lastRead.op = "fetchMemories")
        => \A i, j \in 1..Len(lastRead.value[2]) :
               i # j => lastRead.value[2][i].id # lastRead.value[2][j].id

====
